---- MODULE Spec2Model ----
(***************************************************************************)
(* Model of the numeric core of the meteorite-landings EDA scripts:        *)
(*   - the Tukey 1.5*IQR outlier filter (py_EDA_phase3_Outlier_Removal,    *)
(*     py_EDA_phase2_table_maker, filter_script_2, 0_frequency_count_mkl2) *)
(*   - the transform evaluator / selector / applier, the Z-transform and   *)
(*     interpret_skew of py_EDA_phase3_Normality_Check                     *)
(*   - the data preparation: py_plot_raw_data (jitter),                    *)
(*     py_refactorData_mk1, filter_script_1 and _2,                        *)
(*     py_EDA_phase4_finalData_Tx (load_and_transform)                     *)
(*   - the files the pipeline scripts read and write.                      *)
(*                                                                         *)
(* Numbers.  The counts are integers.  Quartiles of integer data under     *)
(* linear interpolation are multiples of 1/4 and the Tukey bounds are      *)
(* multiples of 1/8, so every quantity of the outlier filter is kept as an *)
(* integer number of EIGHTHS (q1 = 2 is stored as 16).  These values are   *)
(* exactly representable in binary floating point, so the fixed-point      *)
(* arithmetic is the arithmetic the scripts perform.                       *)
(***************************************************************************)
EXTENDS Integers, Sequences, FiniteSets, Bags, TLC

(***************************************************************************)
(* Bounds of the model.                                                    *)
(***************************************************************************)
MaxLen == 5       \* longest input of the filter scripts
MaxVal == 3       \* largest count in an input of the filter scripts
MaxN == 3         \* longest input of the normality check
MaxPos == 2       \* largest value in an input of the normality check
MaxShape == 1     \* shape metrics the statistics library can return: ShapeAt(0..MaxShape)
MaxLambda == 1    \* Box-Cox lambdas the fit can return: 0..MaxLambda
MaxGrid == 5      \* largest grid_size handed to estimate_mode_count
MaxDensity == 2   \* values of the estimated density on the grid: 0..MaxDensity
MaxRows == 2      \* most data rows of an input CSV of a script run
MaxCell == 2      \* largest number in a num_fell_found cell of such a CSV
MaxPoints == 2    \* most rows of a dataframe handed to build_jittered_coords
MaxYear == 2      \* years of such a dataframe, and of the input of load_and_transform: 1..MaxYear
MaxChars == 5     \* longest generated string handed to extract_year_from_string
MaxRecords == 2   \* most data rows of Meteorite_Landings.csv
MaxPerYear == 2   \* most different rows of one year in the input of filter_script_1 and _2
MaxSkew == 150    \* largest finite skewness handed to interpret_skew, in hundredths
MaxUpdates == 1   \* times Meteorite_Landings.csv is replaced while the pipeline is in use

VARIABLES
    values,      \* the num_fell_found column handed to the filter scripts
    removal,     \* outcome of py_EDA_phase3_Outlier_Removal.main
    table,       \* outcome of py_EDA_phase2_table_maker.main
    script2,     \* outcome of filter_script_2.main (IQR step)
    freq,        \* outcome of 0_frequency_count_mkl2 STEP 4
    again        \* outcome of Outlier_Removal run on its own output file

filterVars == <<values, removal, table, script2, freq, again>>

VARIABLES
    pc,                  \* position of py_EDA_phase3_Normality_Check.main
    nvalues,             \* array returned by load_data
    results,             \* dict returned by evaluate_transforms
    scored,              \* per candidate, the array handed to compute_shape_metrics
    recommended,         \* name printed by print_transform_summary
    best_name,           \* main: first key of the score-sorted results
    best_score,          \* main: its score
    transformed_values,  \* main: array returned by apply_transform
    refitted,            \* whether apply_transform fitted a new Box-Cox lambda
    improvement,         \* main: the "Relative improvement" line, if printed
    sigma,               \* main: sign class of transformed_values.std(ddof=1)
    z_values             \* main: the Z-transform of transformed_values

normVars == <<pc, nvalues, results, scored, recommended, best_name, best_score,
              transformed_values, refitted, improvement, sigma, z_values>>

VARIABLES
    kde_values,  \* estimate_mode_count: the array handed to gaussian_kde
    grid_size,   \* estimate_mode_count: its grid_size argument
    ys,          \* estimate_mode_count: the density on the grid
    grid_i,      \* estimate_mode_count: the loop index i (0-based)
    peaks,       \* estimate_mode_count: the counter
    mode_pc      \* position in estimate_mode_count

modeVars == <<kde_values, grid_size, ys, grid_i, peaks, mode_pc>>

VARIABLES
    script,        \* the script being run
    file,          \* its input CSV
    step_i,        \* 0 before loading, then the index of the next step of main
    loaded,        \* the num_fell_found values after coercion and dropna
    metrics_done,  \* whether a statistic has been computed from the data
    written,       \* the output files written so far, in order
    outcome        \* "running", "exit0", or the exception that ended the run

scriptVars == <<script, file, step_i, loaded, metrics_done, written, outcome>>

VARIABLES
    mem,     \* array buffers: buffer 0 is the caller's array, the others were returned
    given,   \* contents of the caller's array before the first call
    lib,     \* the answers of the statistics library for the caller's array
    calls    \* the calls made so far, with what each returned

pureVars == <<mem, given, lib, calls>>

VARIABLES
    df,           \* py_plot_raw_data: the dataframe handed to build_jittered_coords
    rng,          \* the random generator used by the last call, with the draws it has made
    jitter_runs   \* the calls of build_jittered_coords so far: dataframe and coordinates

jitterVars == <<df, rng, jitter_runs>>

VARIABLES
    val,          \* py_refactorData_mk1: str(val) of the argument of extract_year_from_string
    year_int      \* what the call returned or raised

yearVars == <<val, year_int>>

VARIABLES
    raw,          \* py_refactorData_mk1: the rows of Meteorite_Landings.csv
    refactor      \* outcome of py_refactorData_mk1.main

refactorVars == <<raw, refactor>>

VARIABLES
    landings,     \* filter_script_1 and _2: the rows of their Meteorite_Landings.csv
    filter1,      \* outcome of filter_script_1.main
    filter2       \* outcome of filter_script_2.main

yearlyVars == <<landings, filter1, filter2>>

VARIABLES
    tx_input,     \* py_EDA_phase4_finalData_Tx: the file handed to load_and_transform
    tx            \* what load_and_transform returned or raised

txVars == <<tx_input, tx>>

VARIABLES
    fs,           \* the files of the pipeline: per name, whether it exists and its rows
    last,         \* the script run last and how it ended
    or_input,     \* imputating_filter1_Tx.csv as Outlier_Removal read it when it last wrote
    updates       \* how often Meteorite_Landings.csv has been replaced

pipeVars == <<fs, last, or_input, updates>>

VARIABLES
    skew,   \* interpret_skew: its argument
    label   \* interpret_skew: the description returned

skewVars == <<skew, label>>

prepVars == <<jitterVars, yearVars, refactorVars, yearlyVars, txVars, pipeVars,
              skewVars>>

restVars == <<modeVars, scriptVars, pureVars, prepVars>>

vars == <<filterVars, normVars, restVars>>

NotRun == [ran |-> FALSE]

(***************************************************************************)
(* Helpers on sequences.                                                   *)
(***************************************************************************)
RECURSIVE InsertSorted(_, _)
InsertSorted(x, s) ==
    IF s = <<>> THEN <<x>>
    ELSE IF x <= Head(s) THEN <<x>> \o s
    ELSE <<Head(s)>> \o InsertSorted(x, Tail(s))

RECURSIVE SortAsc(_)
SortAsc(s) == IF s = <<>> THEN <<>> ELSE InsertSorted(Head(s), SortAsc(Tail(s)))

RECURSIVE SeqToBag(_)
SeqToBag(s) ==
    IF s = <<>> THEN EmptyBag ELSE SetToBag({Head(s)}) (+) SeqToBag(Tail(s))

RECURSIVE Compress(_, _)
\* boolean-mask indexing: df[mask] / values[mask]
Compress(s, mask) ==
    IF s = <<>> THEN <<>>
    ELSE (IF Head(mask) THEN <<Head(s)>> ELSE <<>>) \o Compress(Tail(s), Tail(mask))

CountTrue(mask) == Cardinality({i \in DOMAIN mask : mask[i]})

(***************************************************************************)
(* np.percentile(a, p) with the default method "linear": the virtual index *)
(* is (n-1)*p/100 (0-based); the result interpolates between the two        *)
(* neighbouring order statistics.  Result in eighths.                      *)
(***************************************************************************)
PercentileNearest(a, p) ==
    LET srt == SortAsc(a)
        n   == Len(a)
        h   == (n - 1) * p
        lo  == h \div 100
        rem == h % 100
    IN  8 * srt[(IF rem > 50 THEN lo + 1 ELSE lo) + 1]

Percentile(a, p) ==
    LET srt == SortAsc(a)
        n   == Len(a)
        h   == (n - 1) * p
        lo  == h \div 100
        rem == h % 100
        hi  == IF lo + 1 < n THEN lo + 1 ELSE lo
    IN  8 * srt[lo + 1] + ((8 * rem) \div 100) * (srt[hi + 1] - srt[lo + 1])

\* pandas Series.quantile(q) (interpolation="linear") delegates to
\* np.percentile(values, 100*q)
Quantile(a, q100) == Percentile(a, q100)

(***************************************************************************)
(* py_EDA_phase3_Outlier_Removal.main, sections 3 and 4.                   *)
(***************************************************************************)
RemovalWideFence(vals) ==
    LET q1 == Percentile(vals, 25)
        q3 == Percentile(vals, 75)
        iqr == q3 - q1
        lower_bound == q1 - 3 * iqr
        upper_bound == q3 + 3 * iqr
        mask_keep == [i \in DOMAIN vals |->
                        8 * vals[i] >= lower_bound /\ 8 * vals[i] <= upper_bound]
    IN  [ran |-> TRUE, q1 |-> q1, q3 |-> q3, iqr |-> iqr,
         lower_bound |-> lower_bound, upper_bound |-> upper_bound,
         mask_keep |-> mask_keep, df_filtered |-> Compress(vals, mask_keep)]

RemovalFence2(vals) ==
    LET q1 == Percentile(vals, 25)
        q3 == Percentile(vals, 75)
        iqr == q3 - q1
        lower_bound == q1 - 2 * iqr
        upper_bound == q3 + 2 * iqr
        mask_keep == [i \in DOMAIN vals |->
                        8 * vals[i] >= lower_bound /\ 8 * vals[i] <= upper_bound]
    IN  [ran |-> TRUE, q1 |-> q1, q3 |-> q3, iqr |-> iqr,
         lower_bound |-> lower_bound, upper_bound |-> upper_bound,
         mask_keep |-> mask_keep, df_filtered |-> Compress(vals, mask_keep)]

RemovalStrict(vals) ==
    LET q1 == Percentile(vals, 25)
        q3 == Percentile(vals, 75)
        iqr == q3 - q1
        lower_bound == q1 - (3 * iqr) \div 2
        upper_bound == q3 + (3 * iqr) \div 2
        mask_keep == [i \in DOMAIN vals |->
                        8 * vals[i] > lower_bound /\ 8 * vals[i] < upper_bound]
    IN  [ran |-> TRUE, q1 |-> q1, q3 |-> q3, iqr |-> iqr,
         lower_bound |-> lower_bound, upper_bound |-> upper_bound,
         mask_keep |-> mask_keep, df_filtered |-> Compress(vals, mask_keep)]

RemovalMain(vals) ==
    LET q1 == Percentile(vals, 25)
        q3 == Percentile(vals, 75)
        iqr == q3 - q1
        lower_bound == q1 - (3 * iqr) \div 2
        upper_bound == q3 + (3 * iqr) \div 2
        mask_keep == [i \in DOMAIN vals |->
                        8 * vals[i] >= lower_bound /\ 8 * vals[i] <= upper_bound]
    IN  [ran |-> TRUE, q1 |-> q1, q3 |-> q3, iqr |-> iqr,
         lower_bound |-> lower_bound, upper_bound |-> upper_bound,
         mask_keep |-> mask_keep, df_filtered |-> Compress(vals, mask_keep)]

(***************************************************************************)
(* py_EDA_phase2_table_maker.main, section 3: quartiles and the count of   *)
(* Tukey outliers (strict test).                                           *)
(***************************************************************************)
TableMakerInclusive(counts) ==
    LET q1 == Percentile(counts, 25)
        q3 == Percentile(counts, 75)
        iqr == q3 - q1
        lower_bound == q1 - (3 * iqr) \div 2
        upper_bound == q3 + (3 * iqr) \div 2
        mask_outliers == [i \in DOMAIN counts |->
                        8 * counts[i] <= lower_bound \/ 8 * counts[i] >= upper_bound]
    IN  [ran |-> TRUE, q1 |-> q1, q3 |-> q3, iqr |-> iqr,
         lower_bound |-> lower_bound, upper_bound |-> upper_bound,
         mask_outliers |-> mask_outliers, n_outliers |-> CountTrue(mask_outliers)]

TableMakerMain(counts) ==
    LET q1 == Percentile(counts, 25)
        q3 == Percentile(counts, 75)
        iqr == q3 - q1
        lower_bound == q1 - (3 * iqr) \div 2
        upper_bound == q3 + (3 * iqr) \div 2
        mask_outliers == [i \in DOMAIN counts |->
                        8 * counts[i] < lower_bound \/ 8 * counts[i] > upper_bound]
    IN  [ran |-> TRUE, q1 |-> q1, q3 |-> q3, iqr |-> iqr,
         lower_bound |-> lower_bound, upper_bound |-> upper_bound,
         mask_outliers |-> mask_outliers, n_outliers |-> CountTrue(mask_outliers)]

(***************************************************************************)
(* filter_script_2.main, section 6: IQR reduction of aggregate_falls.      *)
(***************************************************************************)
FilterScript2(agg) ==
    LET Q1 == Quantile(agg, 25)
        Q3 == Quantile(agg, 75)
        IQR == Q3 - Q1
        lower_bound == Q1 - (3 * IQR) \div 2
        upper_bound == Q3 + (3 * IQR) \div 2
        keep == [i \in DOMAIN agg |->
                        8 * agg[i] >= lower_bound /\ 8 * agg[i] <= upper_bound]
    IN  [ran |-> TRUE, lower_bound |-> lower_bound, upper_bound |-> upper_bound,
         agg_iqr |-> Compress(agg, keep)]

(***************************************************************************)
(* 0_frequency_count_mkl2, STEP 5: the skewness of the trimmed counts,     *)
(* mean(((x - mean) / std) ** 3) with the population std, and 0.0 when the *)
(* std is 0.  With n = len(x), d[i] = n*x[i] - sum(x), s2 = sum(d[i]^2)    *)
(* and s3 = sum(d[i]^3) the std is 0 exactly when s2 = 0, and otherwise    *)
(* the skewness is s3 * sqrt(n) / s2^1.5; it is kept as [s3, s2, n].       *)
(***************************************************************************)
RECURSIVE SumSeq(_)
SumSeq(s) == IF s = <<>> THEN 0 ELSE Head(s) + SumSeq(Tail(s))

SkewTrim(trim_arr) ==
    LET n  == Len(trim_arr)
        d  == [i \in DOMAIN trim_arr |-> n * trim_arr[i] - SumSeq(trim_arr)]
        s2 == SumSeq([i \in DOMAIN d |-> d[i] * d[i]])
        s3 == SumSeq([i \in DOMAIN d |-> d[i] * d[i] * d[i]])
    IN  IF s2 = 0 THEN [s3 |-> 0, s2 |-> 1, n |-> 1]
        ELSE [s3 |-> s3, s2 |-> s2, n |-> n]

(***************************************************************************)
(* 0_frequency_count_mkl2, STEP 4 and STEP 5.                              *)
(***************************************************************************)
FrequencyCount(counts) ==
    LET q1 == Percentile(counts, 25)
        q3 == Percentile(counts, 75)
        iqr == q3 - q1
        lower_bound == q1 - (3 * iqr) \div 2
        upper_bound == q3 + (3 * iqr) \div 2
        trimmed_counts == SelectSeq(counts,
                LAMBDA c : lower_bound <= 8 * c /\ 8 * c <= upper_bound)
    IN  [ran |-> TRUE, q1 |-> q1, q3 |-> q3, iqr |-> iqr,
         lower_bound |-> lower_bound, upper_bound |-> upper_bound,
         trimmed_counts |-> trimmed_counts,
         skew_trim |-> SkewTrim(trimmed_counts)]

(***************************************************************************)
(* The filter scripts as a state machine: every script is a batch run over *)
(* the same column of counts; the scripts are independent of one another   *)
(* and may be run in any order.  Outlier_Removal may afterwards be run     *)
(* once more on the file it wrote.                                         *)
(***************************************************************************)
Scenario == <<1, 2, 2, 3, 3, 3, 100>>

FilterInputs ==
    UNION {[1..n -> 0..MaxVal] : n \in 1..MaxLen} \cup {Scenario}

NormIdle ==
    /\ pc = "idle"
    /\ nvalues = <<>>
    /\ results = <<>>
    /\ scored = <<>>
    /\ recommended = "none"
    /\ best_name = "none"
    /\ best_score = [kind |-> "nan", v |-> 0]
    /\ transformed_values = <<>>
    /\ refitted = FALSE
    /\ improvement = [reported |-> FALSE, num |-> 0, den |-> 0]
    /\ sigma = "none"
    /\ z_values = <<>>

ModeIdle ==
    /\ kde_values = <<>>
    /\ grid_size = 0
    /\ ys = <<>>
    /\ grid_i = 0
    /\ peaks = 0
    /\ mode_pc = "idle"

ScriptIdle ==
    /\ script = "none"
    /\ file = [exists |-> FALSE, has_year |-> FALSE, has_count |-> FALSE,
               cells |-> <<>>]
    /\ step_i = 0
    /\ loaded = <<>>
    /\ metrics_done = FALSE
    /\ written = <<>>
    /\ outcome = "idle"

PureIdle ==
    /\ mem = <<>>
    /\ given = <<>>
    /\ lib = [bc_ok |-> FALSE]
    /\ calls = <<>>

JitterIdle ==
    /\ df = <<>>
    /\ rng = [seed |-> 0, drawn |-> 0]
    /\ jitter_runs = <<>>

YearIdle ==
    /\ val = <<>>
    /\ year_int = [kind |-> "none", v |-> 0]

RefactorIdle ==
    /\ raw = <<>>
    /\ refactor = NotRun

YearlyIdle ==
    /\ landings = <<>>
    /\ filter1 = NotRun
    /\ filter2 = NotRun

TxIdle ==
    /\ tx_input = [exists |-> FALSE, has_columns |-> FALSE, rows |-> <<>>]
    /\ tx = NotRun

PipeIdle ==
    /\ fs = <<>>
    /\ last = [script |-> "none", outcome |-> "none"]
    /\ or_input = <<>>
    /\ updates = 0

SkewIdle ==
    /\ skew = [kind |-> "nan", v |-> 0]
    /\ label = "none"

PrepIdle ==
    /\ JitterIdle /\ YearIdle /\ RefactorIdle /\ YearlyIdle /\ TxIdle /\ PipeIdle
    /\ SkewIdle

RestIdle == ModeIdle /\ ScriptIdle /\ PureIdle /\ PrepIdle

InitFilter ==
    /\ values \in FilterInputs
    /\ removal = NotRun
    /\ table = NotRun
    /\ script2 = NotRun
    /\ freq = NotRun
    /\ again = NotRun
    /\ NormIdle
    /\ RestIdle

RunOutlierRemoval ==
    /\ ~removal.ran
    /\ removal' = RemovalMain(values)
    /\ UNCHANGED <<values, table, script2, freq, again, normVars, restVars>>

RunTableMaker ==
    /\ ~table.ran
    /\ table' = TableMakerMain(values)
    /\ UNCHANGED <<values, removal, script2, freq, again, normVars, restVars>>

RunFilterScript2 ==
    /\ ~script2.ran
    /\ script2' = FilterScript2(values)
    /\ UNCHANGED <<values, removal, table, freq, again, normVars, restVars>>

RunFrequencyCount ==
    /\ ~freq.ran
    /\ freq' = FrequencyCount(values)
    /\ UNCHANGED <<values, removal, table, script2, again, normVars, restVars>>

RunOutlierRemovalAgain ==
    /\ removal.ran
    /\ ~again.ran
    /\ Len(removal.df_filtered) > 0
    /\ again' = RemovalMain(removal.df_filtered)
    /\ UNCHANGED <<values, removal, table, script2, freq, normVars, restVars>>

NextFilter ==
    \/ RunOutlierRemoval
    \/ RunTableMaker
    \/ RunFilterScript2
    \/ RunFrequencyCount
    \/ RunOutlierRemovalAgain

SpecFilter == InitFilter /\ [][NextFilter]_vars

(***************************************************************************)
(* Properties of the outlier filter.                                       *)
(***************************************************************************)
Negate(mask) == [i \in DOMAIN mask |-> ~mask[i]]

\* C1: the rows kept by the inclusive test of Outlier_Removal and the Tukey
\* outliers counted by the strict test of table_maker partition the input:
\* every row is in exactly one of the two, together they are the input as a
\* multiset, and the two counts add up to the input length.
C1_KeptRemovedPartition ==
    (removal.ran /\ table.ran) =>
        /\ \A i \in DOMAIN values : removal.mask_keep[i] # table.mask_outliers[i]
        /\ SeqToBag(removal.df_filtered)
              (+) SeqToBag(Compress(values, table.mask_outliers)) = SeqToBag(values)
        /\ table.n_outliers + Len(removal.df_filtered) = Len(values)

C1_Witness ==
    /\ removal.ran /\ table.ran
    /\ table.n_outliers >= 1
    /\ \E i \in DOMAIN values :
          removal.mask_keep[i] /\ 8 * values[i] = removal.upper_bound

\* The p-th percentile (p = 25 or 75) as the weighted mean of the two order
\* statistics around rank (n-1)*p/100, in eighths.
InterpolatedQuartile(a, p) ==
    LET srt == SortAsc(a)
        n   == Len(a)
        quarters == p \div 25
        k   == ((n - 1) * quarters) \div 4
        r   == ((n - 1) * quarters) % 4
        nxt == IF k + 2 <= n THEN k + 2 ELSE n
    IN  2 * ((4 - r) * srt[k + 1] + r * srt[nxt])

\* C2: q1 and q3 are the linear-interpolated quartiles of the sorted data,
\* iqr = q3 - q1, the bounds are q1 - 1.5*iqr and q3 + 1.5*iqr, a value is kept
\* exactly when it lies between the bounds with both ends included, and
\* Outlier_Removal, filter_script_2 and 0_frequency_count_mkl2 keep the same
\* values.
C2_BoundsAndInclusiveKeep ==
    /\ removal.ran =>
        /\ removal.q1 = InterpolatedQuartile(values, 25)
        /\ removal.q3 = InterpolatedQuartile(values, 75)
        /\ removal.iqr = removal.q3 - removal.q1
        /\ 2 * removal.lower_bound = 2 * removal.q1 - 3 * removal.iqr
        /\ 2 * removal.upper_bound = 2 * removal.q3 + 3 * removal.iqr
        /\ \A i \in DOMAIN values :
              removal.mask_keep[i] <=>
                (removal.lower_bound <= 8 * values[i] /\ 8 * values[i] <= removal.upper_bound)
        /\ removal.df_filtered = Compress(values, removal.mask_keep)
    /\ (removal.ran /\ script2.ran) => script2.agg_iqr = removal.df_filtered
    /\ (removal.ran /\ freq.ran) => freq.trimmed_counts = removal.df_filtered

C2_Witness ==
    /\ removal.ran /\ script2.ran /\ freq.ran
    /\ removal.q1 % 8 # 0
    /\ removal.q3 % 8 # 0
    /\ \E i \in DOMAIN values :
          /\ removal.mask_keep[i]
          /\ 8 * values[i] \in {removal.lower_bound, removal.upper_bound}

\* C3: the input [1,2,2,3,3,3,100] gives Q1 = 2, Q3 = 3, IQR = 1, bounds 0.5
\* and 4.5, kept = [1,2,2,3,3,3] and removed = [100].
C3_Scenario ==
    (values = Scenario /\ removal.ran) =>
        /\ removal.q1 = 16 /\ removal.q3 = 24 /\ removal.iqr = 8
        /\ removal.lower_bound = 4 /\ removal.upper_bound = 36
        /\ removal.df_filtered = <<1, 2, 2, 3, 3, 3>>
        /\ Compress(values, Negate(removal.mask_keep)) = <<100>>

C3_Witness == values = Scenario /\ removal.ran

\* C4 as stated: a sequence of length 1 yields q1 = q3 = iqr = 0, both bounds
\* equal to the single value, and the value is kept.
C4_AsStated ==
    (Len(values) = 1 /\ removal.ran) =>
        /\ removal.q1 = 0 /\ removal.q3 = 0 /\ removal.iqr = 0
        /\ removal.lower_bound = 8 * values[1]
        /\ removal.upper_bound = 8 * values[1]
        /\ removal.df_filtered = values

\* C4 amended: a sequence of length 1 yields q1 = q3 = the single value,
\* iqr = 0, both bounds equal to the single value, and the value is kept.
C4_SingleValue ==
    (Len(values) = 1 /\ removal.ran) =>
        /\ removal.q1 = 8 * values[1] /\ removal.q3 = 8 * values[1]
        /\ removal.iqr = 0
        /\ removal.lower_bound = 8 * values[1]
        /\ removal.upper_bound = 8 * values[1]
        /\ removal.df_filtered = values

C4_Witness == Len(values) = 1 /\ values[1] > 0 /\ removal.ran

\* C5: the filter is not idempotent.  On the input [0,2,3,3,3] the first pass
\* keeps [2,3,3,3] and a second pass over that output removes the 2; and
\* whenever a second pass removes a value, the recomputed bounds are tighter
\* than the bounds of the first pass.
NonIdempotentInput == <<0, 2, 3, 3, 3>>

C5_SecondPassRemovesMore ==
    again.ran =>
        /\ values = NonIdempotentInput =>
              /\ removal.df_filtered = <<2, 3, 3, 3>>
              /\ again.df_filtered = <<3, 3, 3>>
        /\ Len(again.df_filtered) < Len(removal.df_filtered) =>
              \/ again.lower_bound > removal.lower_bound
              \/ again.upper_bound < removal.upper_bound

C5_Witness ==
    /\ again.ran
    /\ values = NonIdempotentInput
    /\ Len(again.df_filtered) < Len(removal.df_filtered)

(***************************************************************************)
(* py_EDA_phase3_Normality_Check.                                          *)
(*                                                                         *)
(* Floating-point numbers that can be NaN or +infinity are records         *)
(* [kind, v]; comparisons follow IEEE-754 (every comparison with NaN is    *)
(* false).  Array elements are records [fn, arg, lam]: the value fn(arg),  *)
(* fn being "x" for a raw number; the transforms are injective on the      *)
(* positive numbers, so two elements are equal exactly when their records  *)
(* are.                                                                    *)
(***************************************************************************)
Fin(n) == [kind |-> "fin", v |-> n]
Inf == [kind |-> "inf", v |-> 0]
NaN == [kind |-> "nan", v |-> 0]

FLt(a, b) ==
    /\ a.kind # "nan" /\ b.kind # "nan"
    /\ \/ a.kind = "fin" /\ b.kind = "fin" /\ a.v < b.v
       \/ a.kind = "fin" /\ b.kind = "inf"

FEq(a, b) == a.kind # "nan" /\ b.kind # "nan" /\ a = b

FGt(a, b) == FLt(b, a)

IsFinite(a) == a.kind = "fin"

FAbs(a) == IF a.kind = "fin" THEN Fin(IF a.v < 0 THEN 0 - a.v ELSE a.v) ELSE a

\* a + b and a - c for a, b possibly NaN and c a finite constant
FAdd(a, b) == IF a.kind = "fin" /\ b.kind = "fin" THEN Fin(a.v + b.v)
              ELSE IF a.kind = "nan" \/ b.kind = "nan" THEN NaN ELSE Inf

FSubConst(a, c) == IF a.kind = "fin" THEN Fin(a.v - c) ELSE a

Raw(x) == [fn |-> "x", arg |-> x, lam |-> 0]

Positive(e) == e.fn = "x" /\ e.arg > 0

MapReversed(f, lam, arr) ==
    [i \in DOMAIN arr |-> [fn |-> f, arg |-> arr[Len(arr) + 1 - i].arg, lam |-> lam]]

Map(f, lam, arr) == [i \in DOMAIN arr |-> [fn |-> f, arg |-> arr[i].arg, lam |-> lam]]

IsConstant(arr) == \A i, j \in DOMAIN arr : arr[i] = arr[j]

(***************************************************************************)
(* compute_shape_metrics.  scipy.stats.skew / kurtosis return NaN for data *)
(* without spread (a constant array, which includes a single element);     *)
(* for any other array the value is whatever the library computes, here    *)
(* the oracle answer m.                                                    *)
(***************************************************************************)
\* 0, -1, 1, -2, 2, ...
Alternating(k) == IF k % 2 = 0 THEN k \div 2 ELSE 0 - ((k + 1) \div 2)

\* the k-th sample of (skew, kurtosis): (0,3), (-1,3), (1,2), (-2,2), (2,4), ...
ShapeAt(k) ==
    [skew |-> Fin(Alternating(k)), kurtosis |-> Fin(3 + Alternating(k \div 2))]

ShapeDomain == {ShapeAt(k) : k \in 0..MaxShape}

compute_shape_metrics(arr, m) ==
    IF IsConstant(arr) THEN [skew |-> NaN, kurtosis |-> NaN] ELSE m

ScoreSigned(m) == FAdd(m.skew, FSubConst(m.kurtosis, 3))

\* abs(skew) + abs(kurtosis - 3.0)
Score(m) == FAdd(FAbs(m.skew), FAbs(FSubConst(m.kurtosis, 3)))

ExtraNone == [tag |-> "none", lambda |-> 0]
ExtraLambda(lam) == [tag |-> "lambda", lambda |-> lam]
ExtraError == [tag |-> "error", lambda |-> 0]

Entry(name, m, extra) ==
    [name |-> name, skew |-> m.skew, kurtosis |-> m.kurtosis,
     score |-> Score(m), extra |-> extra]

(***************************************************************************)
(* evaluate_transforms.  The dict is kept as the sequence of its items in  *)
(* insertion order.  o is the answer of the statistics library: the shape  *)
(* metrics of each transformed array, whether the Box-Cox fit succeeds and *)
(* the lambda it returns.                                                  *)
(***************************************************************************)
PositiveValuesAll(vals) == vals

\* values[values > 0]
PositiveValues(vals) == SelectSeq(vals, Positive)

BoxcoxFailedZero ==
    [name |-> "boxcox", skew |-> NaN, kurtosis |-> NaN, score |-> Fin(0),
     extra |-> ExtraError]

BoxcoxFailedOtherKey ==
    [name |-> "boxcox_error", skew |-> NaN, kurtosis |-> NaN, score |-> Inf,
     extra |-> ExtraError]

\* the except branch of evaluate_transforms
BoxcoxFailed ==
    [name |-> "boxcox", skew |-> NaN, kurtosis |-> NaN, score |-> Inf,
     extra |-> ExtraError]

\* scipy.stats.boxcox raises ValueError on constant data; the fit may also
\* fail for other numerical reasons (o.bc_ok = FALSE)
BoxcoxRaises(positive_values, o) == IsConstant(positive_values) \/ ~o.bc_ok

evaluate_transforms(vals, o) ==
    LET metrics_id == compute_shape_metrics(vals, o.identity)
        identity == Entry("identity", metrics_id, ExtraNone)
        positive_values == PositiveValues(vals)
        log_vals  == Map("log1p", 0, positive_values)
        sqrt_vals == Map("sqrt", 0, positive_values)
        cbrt_vals == Map("cbrt", 0, positive_values)
        bc_vals   == Map("boxcox", o.lam, positive_values)
        m_log  == compute_shape_metrics(log_vals, o.log1p)
        m_sqrt == compute_shape_metrics(sqrt_vals, o.sqrt)
        m_cbrt == compute_shape_metrics(cbrt_vals, o.cuberoot)
        m_bc   == compute_shape_metrics(bc_vals, o.boxcox)
    IN  IF Len(positive_values) = 0
        THEN [results |-> <<identity>>,
              scored  |-> <<[name |-> "identity", arr |-> vals]>>]
        ELSE [results |->
                <<identity,
                  Entry("log1p", m_log, ExtraNone),
                  Entry("sqrt", m_sqrt, ExtraNone),
                  Entry("cuberoot", m_cbrt, ExtraNone),
                  IF BoxcoxRaises(positive_values, o)
                  THEN BoxcoxFailed
                  ELSE Entry("boxcox", m_bc, ExtraLambda(o.lam))>>,
              scored |->
                <<[name |-> "identity", arr |-> vals],
                  [name |-> "log1p", arr |-> log_vals],
                  [name |-> "sqrt", arr |-> sqrt_vals],
                  [name |-> "cuberoot", arr |-> cbrt_vals]>>
                \o (IF BoxcoxRaises(positive_values, o)
                    THEN <<>>
                    ELSE <<[name |-> "boxcox", arr |-> bc_vals]>>)]

\* results[name], for a key that is present
Lookup(items, name) == items[CHOOSE i \in DOMAIN items : items[i].name = name]

Has(items, name) == \E i \in DOMAIN items : items[i].name = name

(***************************************************************************)
(* sorted(results.items(), key=lambda kv: kv[1]["score"]): list.sort on a  *)
(* list shorter than 64 items is count_run (find the leading run, reverse  *)
(* it when strictly descending) followed by a binary insertion sort; the   *)
(* only comparison is "<" on the float keys.                               *)
(***************************************************************************)
ISLTSwapped(a, b) == FLt(b.score, a.score)

ISLT(a, b) == FLt(a.score, b.score)

Reverse(s) == [i \in DOMAIN s |-> s[Len(s) + 1 - i]]

RECURSIVE RunEnd(_, _, _)
\* s[1..n] is a run; extend it while the order continues
RunEnd(s, n, descending) ==
    IF n >= Len(s) THEN n
    ELSE IF descending = ISLT(s[n + 1], s[n]) THEN RunEnd(s, n + 1, descending)
    ELSE n

RECURSIVE BinarySearch(_, _, _, _)
\* insertion point of pivot in the sorted prefix s[l..(r-1)]
BinarySearch(s, pivot, l, r) ==
    IF l >= r THEN l
    ELSE LET q == l + ((r - l) \div 2)
         IN  IF ISLT(pivot, s[q]) THEN BinarySearch(s, pivot, l, q)
             ELSE BinarySearch(s, pivot, q + 1, r)

RECURSIVE BinarySort(_, _)
\* s[1..(start-1)] is sorted; insert s[start], s[start+1], ...
BinarySort(s, start) ==
    IF start > Len(s) THEN s
    ELSE LET l == BinarySearch(s, s[start], 1, start)
         IN  BinarySort(SubSeq(s, 1, l - 1) \o <<s[start]>>
                          \o SubSeq(s, l, start - 1)
                          \o SubSeq(s, start + 1, Len(s)),
                        start + 1)

SortedDescending(items) ==
    IF Len(items) <= 1 THEN items
    ELSE LET descending == ISLT(items[2], items[1])
             n   == RunEnd(items, 2, descending)
             run == IF descending THEN Reverse(SubSeq(items, 1, n))
                    ELSE SubSeq(items, 1, n)
         IN  Reverse(BinarySort(run \o SubSeq(items, n + 1, Len(items)), n + 1))

SortedByScore(items) ==
    IF Len(items) <= 1 THEN items
    ELSE LET descending == ISLT(items[2], items[1])
             n   == RunEnd(items, 2, descending)
             run == IF descending THEN Reverse(SubSeq(items, 1, n))
                    ELSE SubSeq(items, 1, n)
         IN  BinarySort(run \o SubSeq(items, n + 1, Len(items)), n + 1)

(***************************************************************************)
(* apply_transform(values, name, extra).  refit_lam is the lambda a new    *)
(* Box-Cox fit would return, used only when the function fits again; the   *)
(* fit is a function of the data, so a new fit of the same subsequence     *)
(* returns the lambda of the first fit.                                    *)
(***************************************************************************)
apply_transform_refit(vals_in, name, extra, refit_lam) ==
    LET vals == IF \E i \in DOMAIN vals_in : ~Positive(vals_in[i])
                THEN SelectSeq(vals_in, Positive)
                ELSE vals_in
    IN  IF name = "identity" THEN [out |-> vals_in, refit |-> FALSE]
        ELSE IF name = "log1p" THEN [out |-> Map("log1p", 0, vals), refit |-> FALSE]
        ELSE IF name = "sqrt" THEN [out |-> Map("sqrt", 0, vals), refit |-> FALSE]
        ELSE IF name = "cuberoot" THEN [out |-> Map("cbrt", 0, vals), refit |-> FALSE]
        ELSE IF name = "boxcox"
             THEN [out |-> Map("boxcox", refit_lam, vals), refit |-> TRUE]
        ELSE [out |-> vals_in, refit |-> FALSE]

apply_transform_filtered(vals_in, name, extra, refit_lam) ==
    LET vals == IF \E i \in DOMAIN vals_in : ~Positive(vals_in[i])
                THEN SelectSeq(vals_in, Positive)
                ELSE vals_in
    IN  IF name = "identity" THEN [out |-> vals, refit |-> FALSE]
        ELSE IF name = "log1p" THEN [out |-> Map("log1p", 0, vals), refit |-> FALSE]
        ELSE IF name = "sqrt" THEN [out |-> Map("sqrt", 0, vals), refit |-> FALSE]
        ELSE IF name = "cuberoot" THEN [out |-> Map("cbrt", 0, vals), refit |-> FALSE]
        ELSE IF name = "boxcox"
             THEN IF extra.tag # "lambda"
                  THEN [out |-> Map("boxcox", refit_lam, vals), refit |-> TRUE]
                  ELSE [out |-> Map("boxcox", extra.lambda, vals), refit |-> FALSE]
        ELSE [out |-> vals_in, refit |-> FALSE]

apply_transform(vals_in, name, extra, refit_lam) ==
    LET vals == IF \E i \in DOMAIN vals_in : ~Positive(vals_in[i])
                THEN SelectSeq(vals_in, Positive)
                ELSE vals_in
    IN  IF name = "identity" THEN [out |-> vals_in, refit |-> FALSE]
        ELSE IF name = "log1p" THEN [out |-> Map("log1p", 0, vals), refit |-> FALSE]
        ELSE IF name = "sqrt" THEN [out |-> Map("sqrt", 0, vals), refit |-> FALSE]
        ELSE IF name = "cuberoot" THEN [out |-> Map("cbrt", 0, vals), refit |-> FALSE]
        ELSE IF name = "boxcox"
             THEN IF extra.tag # "lambda"
                  THEN [out |-> Map("boxcox", refit_lam, vals), refit |-> TRUE]
                  ELSE [out |-> Map("boxcox", extra.lambda, vals), refit |-> FALSE]
        ELSE [out |-> vals_in, refit |-> FALSE]

(***************************************************************************)
(* main: the "Relative improvement" line.                                  *)
(***************************************************************************)
NotReported == [reported |-> FALSE, num |-> 0, den |-> 0]

RelativeImprovementUnguarded(original, best) ==
    IF IsFinite(original) /\ IsFinite(best)
    THEN [reported |-> TRUE,
          num |-> 100 * (original.v - best.v),
          den |-> original.v]
    ELSE NotReported

RelativeImprovement(original, best) ==
    IF FGt(original, Fin(0)) /\ IsFinite(best)
    THEN [reported |-> TRUE,
          num |-> 100 * (original.v - best.v),
          den |-> original.v]
    ELSE NotReported

(***************************************************************************)
(* main of py_EDA_phase3_Normality_Check as a state machine; pc is the     *)
(* position in main.                                                       *)
(***************************************************************************)
SqrtScenario == <<Raw(4), Raw(9), Raw(16), Raw(25), Raw(36)>>

NormInputs ==
    UNION {[1..n -> {Raw(x) : x \in (0 - 1)..MaxPos}] : n \in 1..MaxN}
        \cup {SqrtScenario}

\* The answers of the statistics library for the arrays derived from vals.
\* Answers that are never consulted (metrics of arrays without spread, the
\* metrics and lambda of a fit that raises) are fixed, so that they are not
\* enumerated.
Oracle(vals) ==
    LET unused == {[skew |-> Fin(0), kurtosis |-> Fin(3)]}
        spread == ~IsConstant(SelectSeq(vals, Positive))
        pos    == IF spread THEN ShapeDomain ELSE unused
        ident  == IF IsConstant(vals) THEN unused ELSE ShapeDomain
    IN  [identity : ident, log1p : pos, sqrt : pos, cuberoot : pos,
         boxcox : unused, bc_ok : {FALSE}, lam : {0}]
        \cup
        (IF spread
         THEN [identity : ident, log1p : pos, sqrt : pos, cuberoot : pos,
               boxcox : pos, bc_ok : {TRUE}, lam : 0..MaxLambda]
         ELSE {})

FilterIdle ==
    /\ values = <<>>
    /\ removal = NotRun
    /\ table = NotRun
    /\ script2 = NotRun
    /\ freq = NotRun
    /\ again = NotRun

InitNorm ==
    /\ FilterIdle
    /\ RestIdle
    /\ pc = "loaded"
    /\ nvalues \in NormInputs
    /\ results = <<>>
    /\ scored = <<>>
    /\ recommended = "none"
    /\ best_name = "none"
    /\ best_score = NaN
    /\ transformed_values = <<>>
    /\ refitted = FALSE
    /\ improvement = NotReported
    /\ sigma = "none"
    /\ z_values = <<>>

\* estimate_mode_count(values): stats.gaussian_kde raises on data without
\* spread (singular covariance, or a single element); nothing catches it
MeasureShape ==
    /\ pc = "loaded"
    /\ pc' = IF IsConstant(nvalues) THEN "failed" ELSE "measured"
    /\ UNCHANGED <<filterVars, restVars, nvalues, results, scored, recommended,
                   best_name, best_score, transformed_values, refitted, improvement,
                   sigma, z_values>>

\* print_transform_summary(results): the name printed as recommended
print_transform_summary(items) == SortedByScore(items)[1].name

\* ndarray.std(ddof=1): the sign class of the sample standard deviation.
\* With fewer than two elements the divisor n - 1 is not positive and the
\* result is NaN; on an array of equal elements the result is 0 when the
\* rounded mean equals the element and a tiny positive number otherwise.
StdDdof1(arr) ==
    IF Len(arr) <= 1 THEN {"nan"}
    ELSE IF IsConstant(arr) THEN {"zero", "positive"}
    ELSE {"positive"}

\* one element of (transformed_values - mu) / sigma, kept as a term: the
\* element standardised and the array whose mean and deviation are used
ZScore(x, arr) == [z_of |-> x, mean_std_of |-> arr]

ZTransformReversed(arr, sd) ==
    IF sd = "zero" THEN arr
    ELSE [i \in DOMAIN arr |-> ZScore(arr[Len(arr) + 1 - i], arr)]

\* main, the Z-transform: a copy when sigma == 0, the quotient otherwise
ZTransform(arr, sd) ==
    IF sd = "zero" THEN arr
    ELSE [i \in DOMAIN arr |-> ZScore(arr[i], arr)]

\* main from evaluate_transforms to the Z-transform of the transformed data
TransformAndReport ==
    /\ pc = "measured"
    /\ \E o \in Oracle(nvalues) :
        \E r \in {evaluate_transforms(nvalues, o)} :
        \E original_score \in {Lookup(r.results, "identity").score} :
        \E best_res \in {SortedByScore(r.results)[1]} :
        \E applied \in {apply_transform(nvalues, best_res.name, best_res.extra,
                                        o.lam)} :
            /\ results' = r.results
            /\ scored' = r.scored
            /\ recommended' = print_transform_summary(r.results)
            /\ best_name' = best_res.name
            /\ best_score' = best_res.score
            /\ transformed_values' = applied.out
            /\ refitted' = applied.refit
            /\ improvement' = RelativeImprovement(original_score, best_res.score)
            /\ \E sd \in StdDdof1(applied.out) :
                /\ sigma' = sd
                /\ z_values' = ZTransform(applied.out, sd)
    /\ pc' = "reported"
    /\ UNCHANGED <<filterVars, restVars, nvalues>>

NextNorm ==
    \/ MeasureShape
    \/ TransformAndReport

SpecNorm == InitNorm /\ [][NextNorm]_vars

(***************************************************************************)
(* Properties of the transform evaluator, selector and applier.            *)
(***************************************************************************)
DeclarationOrder == <<"identity", "log1p", "sqrt", "cuberoot", "boxcox">>

Names(items) == {items[i].name : i \in DOMAIN items}

FLe(a, b) == FLt(a, b) \/ FEq(a, b)

PositivePart(arr) == SelectSeq(arr, LAMBDA e : e.arg > 0)

\* C6: the selected candidate has a minimal score (no candidate scores
\* strictly less, and it scores at most every candidate whose score is a
\* number), no candidate earlier in the declaration order identity, log1p,
\* sqrt, cuberoot, boxcox has the same score, and the name printed as
\* recommended is the one main applies.
C6_MinimalScoreEarliestWins ==
    pc = "reported" =>
        /\ \A i \in DOMAIN results : results[i].name = DeclarationOrder[i]
        /\ \E b \in DOMAIN results :
              /\ results[b].name = best_name
              /\ results[b].score = best_score
              /\ \A i \in DOMAIN results : ~FLt(results[i].score, best_score)
              /\ \A i \in DOMAIN results :
                    results[i].score.kind # "nan" => FLe(best_score, results[i].score)
              /\ \A i \in 1..(b - 1) : ~FEq(results[i].score, best_score)
        /\ recommended = best_name

C6_Witness ==
    /\ pc = "reported"
    /\ best_name = "sqrt"
    /\ Lookup(results, "cuberoot").score = best_score
    /\ FLt(best_score, Lookup(results, "identity").score)
    /\ FLt(best_score, Lookup(results, "log1p").score)

BoxcoxFitFailed ==
    Has(results, "boxcox") /\ Lookup(results, "boxcox").extra.tag = "error"

\* C7: when the Box-Cox fit fails, evaluate_transforms still returns and main
\* runs to its report, the boxcox candidate is recorded with score +infinity,
\* every other candidate has the score of its own metrics, and boxcox is
\* neither recommended nor selected.
C7_BoxcoxFailureIsLocal ==
    BoxcoxFitFailed =>
        /\ pc = "reported"
        /\ Lookup(results, "boxcox").score = Inf
        /\ Names(results) = {DeclarationOrder[i] : i \in DOMAIN DeclarationOrder}
        /\ \A i \in DOMAIN results :
              results[i].name # "boxcox" =>
                /\ results[i].score.kind # "inf"
                /\ results[i].score =
                     Score([skew |-> results[i].skew, kurtosis |-> results[i].kurtosis])
        /\ best_name # "boxcox"
        /\ recommended # "boxcox"

C7_Witness ==
    /\ BoxcoxFitFailed
    /\ ~IsConstant(PositivePart(nvalues))
    /\ best_name = "cuberoot"

\* C8: identity is scored on the whole input, log1p, sqrt, cuberoot and
\* boxcox on the strictly positive values in input order, and without any
\* positive value the result holds the identity candidate alone.
C8_PositiveSubsequence ==
    pc = "reported" =>
        /\ Has(scored, "identity") /\ Lookup(scored, "identity").arr = nvalues
        /\ \A i \in DOMAIN scored :
              scored[i].name # "identity" =>
                /\ Len(scored[i].arr) = Len(PositivePart(nvalues))
                /\ \A j \in DOMAIN scored[i].arr :
                      /\ scored[i].arr[j].arg > 0
                      /\ scored[i].arr[j].arg = PositivePart(nvalues)[j].arg
                      /\ scored[i].arr[j].fn # "x"
        /\ PositivePart(nvalues) = <<>> =>
              Names(results) = {"identity"} /\ Names(scored) = {"identity"}
        /\ PositivePart(nvalues) # <<>> =>
              /\ Names(results) = {DeclarationOrder[i] : i \in DOMAIN DeclarationOrder}
              /\ {"identity", "log1p", "sqrt", "cuberoot"} \subseteq Names(scored)

C8_Witness ==
    /\ pc = "reported"
    /\ \E i \in DOMAIN nvalues : nvalues[i].arg < 0
    /\ \E i \in DOMAIN nvalues : nvalues[i].arg = 0
    /\ Names(results) = {"identity"}

C8_WitnessMixed ==
    /\ pc = "reported"
    /\ \E i \in DOMAIN nvalues : nvalues[i].arg <= 0
    /\ Has(scored, "boxcox")

\* C9: when boxcox is selected, apply_transform fits no new lambda and
\* returns Box-Cox with the lambda fitted at evaluation time of the strictly
\* positive values; for every selected transform the returned array is the
\* array whose metrics were scored at evaluation time.
C9_ApplyReusesEvaluation ==
    pc = "reported" =>
        /\ best_name = "boxcox" =>
              /\ Lookup(results, "boxcox").extra.tag = "lambda"
              /\ ~refitted
              /\ transformed_values =
                    [j \in DOMAIN PositivePart(nvalues) |->
                        [fn |-> "boxcox", arg |-> PositivePart(nvalues)[j].arg,
                         lam |-> Lookup(results, "boxcox").extra.lambda]]
        /\ Has(scored, best_name)
        /\ transformed_values = Lookup(scored, best_name).arr

C9_Witness ==
    /\ pc = "reported"
    /\ best_name = "boxcox"
    /\ Lookup(results, "boxcox").extra.lambda = MaxLambda
    /\ \E i \in DOMAIN nvalues : nvalues[i].arg <= 0

\* C10: the relative improvement 100 * (identity.score - best.score) /
\* identity.score is reported only when identity.score > 0; otherwise nothing
\* is divided and no figure is reported.
C10_ImprovementOnlyWhenPositive ==
    pc = "reported" =>
        LET original == Lookup(results, "identity").score
        IN  /\ improvement.reported =>
                  /\ original.kind = "fin" /\ original.v > 0
                  /\ improvement.den = original.v
                  /\ improvement.num = 100 * (original.v - best_score.v)
            /\ ~(original.kind = "fin" /\ original.v > 0) =>
                  improvement = NotReported

C10_Witness ==
    /\ pc = "reported"
    /\ Lookup(results, "identity").score = Fin(0)
    /\ ~improvement.reported

C10_WitnessReported ==
    /\ pc = "reported"
    /\ improvement.reported
    /\ improvement.num > 0

(***************************************************************************)
(* Skewness and kurtosis of data without spread.                           *)
(***************************************************************************)
\* C11 as stated: whenever skewness is computed for an array without spread
\* (a constant sequence), no error is raised and the skewness is 0: in
\* 0_frequency_count_mkl2 for the trimmed counts, and in compute_shape_metrics
\* for every array scored by evaluate_transforms.
C11_AsStated ==
    /\ (freq.ran /\ \A i, j \in DOMAIN freq.trimmed_counts :
                        freq.trimmed_counts[i] = freq.trimmed_counts[j])
          => freq.skew_trim.s3 = 0
    /\ pc = "reported" =>
          \A i \in DOMAIN scored :
              IsConstant(scored[i].arr) =>
                  Lookup(results, scored[i].name).skew = Fin(0)

\* C12 as stated: shape metrics are never returned for an array with fewer
\* than 2 distinct values, the computation fails instead: main stops at its
\* measurement of the loaded data exactly when the data has no spread, and
\* evaluate_transforms holds no metrics for a scored array without spread.
C12_AsStated ==
    /\ pc = "failed" => IsConstant(nvalues)
    /\ pc \in {"measured", "reported"} => ~IsConstant(nvalues)
    /\ pc = "reported" =>
          \A i \in DOMAIN scored :
              IsConstant(scored[i].arr) => ~Has(results, scored[i].name)

(***************************************************************************)
(* estimate_mode_count(values, grid_size) as a state machine of its own:   *)
(* the density fit, then one step per iteration of the counting loop.      *)
(* gaussian_kde distinguishes three kinds of input: a single element and   *)
(* several equal elements (it raises on both) and data with spread; the    *)
(* density it returns on the grid is an answer of the library.  Python's   *)
(* ys[i] is ys[i + 1] here.                                                *)
(***************************************************************************)
ModeInputs == {<<Raw(1)>>, <<Raw(1), Raw(1)>>, <<Raw(1), Raw(2)>>}

InitModes ==
    /\ FilterIdle
    /\ NormIdle
    /\ ScriptIdle
    /\ PureIdle
    /\ PrepIdle
    /\ kde_values \in ModeInputs
    /\ grid_size \in 1..MaxGrid
    /\ ys = <<>>
    /\ grid_i = 0
    /\ peaks = 0
    /\ mode_pc = "called"

IsPeakWeak(d, i) == d[i + 1] >= d[i] /\ d[i + 1] >= d[i + 2]

\* ys[i] > ys[i - 1] and ys[i] > ys[i + 1]
IsPeak(d, i) == d[i + 1] > d[i] /\ d[i + 1] > d[i + 2]

\* kde = stats.gaussian_kde(values); xs = np.linspace(...); ys = kde(xs); peaks = 0
FitDensity ==
    /\ mode_pc = "called"
    /\ IF IsConstant(kde_values)
       THEN /\ mode_pc' = "raised"
            /\ UNCHANGED <<ys, grid_i, peaks>>
       ELSE /\ \E d \in [1..grid_size -> 0..MaxDensity] : ys' = d
            /\ grid_i' = 1
            /\ peaks' = 0
            /\ mode_pc' = "scanning"
    /\ UNCHANGED <<kde_values, grid_size, filterVars, normVars, scriptVars, pureVars, prepVars>>

\* one iteration of: for i in range(1, len(ys) - 1)
ScanGrid ==
    /\ mode_pc = "scanning"
    /\ grid_i < Len(ys) - 1
    /\ peaks' = IF IsPeak(ys, grid_i) THEN peaks + 1 ELSE peaks
    /\ grid_i' = grid_i + 1
    /\ UNCHANGED <<kde_values, grid_size, ys, mode_pc,
                   filterVars, normVars, scriptVars, pureVars, prepVars>>

\* return peaks
ReturnPeaks ==
    /\ mode_pc = "scanning"
    /\ grid_i >= Len(ys) - 1
    /\ mode_pc' = "returned"
    /\ UNCHANGED <<kde_values, grid_size, ys, grid_i, peaks,
                   filterVars, normVars, scriptVars, pureVars, prepVars>>

NextModes ==
    \/ FitDensity
    \/ ScanGrid
    \/ ReturnPeaks

SpecModes == InitModes /\ [][NextModes]_vars

\* grid indices (Python, 0-based) below bound that are not an endpoint and
\* whose density is strictly greater than the density of both neighbours
StrictInteriorMaxima(d, bound) ==
    {i \in 1..(Len(d) - 2) : i < bound /\ d[i] < d[i + 1] /\ d[i + 2] < d[i + 1]}

NonDecreasing(d) == \A i \in 1..(Len(d) - 1) : d[i] <= d[i + 1]

NonIncreasing(d) == \A i \in 1..(Len(d) - 1) : d[i] >= d[i + 1]

\* every interior grid point has an equal neighbour
AllPlateau(d) == \A i \in 2..(Len(d) - 1) : d[i] = d[i - 1] \/ d[i] = d[i + 1]

\* C13: estimate_mode_count returns the number of interior grid indices whose
\* density is strictly greater than both neighbours (and after each iteration
\* the counter is that number for the indices visited so far); the result is
\* 0 for a monotone density and for a density whose interior points all lie on
\* plateaus, the two endpoints are not counted even where the density is
\* largest there, and twice the result is at most grid_size - 1.
C13_CountsStrictInteriorMaxima ==
    /\ mode_pc = "scanning" =>
          peaks = Cardinality(StrictInteriorMaxima(ys, grid_i))
    /\ mode_pc = "returned" =>
          /\ Len(ys) = grid_size
          /\ peaks = Cardinality(StrictInteriorMaxima(ys, grid_size))
          /\ (NonDecreasing(ys) \/ NonIncreasing(ys)) => peaks = 0
          /\ AllPlateau(ys) => peaks = 0
          /\ peaks <= (IF grid_size >= 2 THEN grid_size - 2 ELSE 0)
          /\ 2 * peaks <= grid_size - 1

C13_Witness ==
    /\ mode_pc = "returned"
    /\ peaks = 1
    /\ Len(ys) = 5
    /\ ys[4] = MaxDensity /\ ys[5] = MaxDensity
    /\ ys[2] > ys[1] /\ ys[2] > ys[3]

(***************************************************************************)
(* Further properties of the selector and the applier.                     *)
(***************************************************************************)
\* C14: the score of the candidate main selects is a number (not NaN) and is
\* at least 0, and no candidate has a negative score.
C14_SelectedScoreNonNegative ==
    pc = "reported" =>
        /\ best_score.kind # "nan"
        /\ FLe(Fin(0), best_score)
        /\ best_score = Lookup(results, best_name).score
        /\ \A i \in DOMAIN results : ~FLt(results[i].score, Fin(0))

C14_Witness ==
    /\ pc = "reported"
    /\ \E i \in DOMAIN results : results[i].score.kind = "nan"
    /\ Lookup(results, best_name).skew.v < 0
    /\ best_score.v > 0

\* C15: apply_transform with name = identity returns an array equal to its
\* input element by element, in length and in order, also when the input
\* holds zero or negative values: when main selects identity the array it
\* goes on with is the loaded array.
C15_IdentityReturnsInput ==
    (pc = "reported" /\ best_name = "identity") =>
        /\ Len(transformed_values) = Len(nvalues)
        /\ \A i \in DOMAIN nvalues : transformed_values[i] = nvalues[i]
        /\ ~refitted

C15_Witness ==
    /\ pc = "reported"
    /\ best_name = "identity"
    /\ Has(results, "sqrt")
    /\ \E i \in DOMAIN nvalues : nvalues[i].arg = 0
    /\ \E i \in DOMAIN nvalues : nvalues[i].arg < 0

RECURSIVE ISqrtFrom(_, _)
ISqrtFrom(n, r) == IF (r + 1) * (r + 1) > n THEN r ELSE ISqrtFrom(n, r + 1)

\* the largest integer whose square is at most n
ISqrt(n) == ISqrtFrom(n, 0)

\* The number an array element stands for, where that number is an integer:
\* a raw count, or np.sqrt of a perfect square (the IEEE-754 square root is
\* correctly rounded, so the root of a perfect square is exact).
ElementValue(e) ==
    IF e.fn = "x" THEN [exact |-> TRUE, v |-> e.arg]
    ELSE IF e.fn = "sqrt" /\ e.arg >= 0 /\ ISqrt(e.arg) * ISqrt(e.arg) = e.arg
         THEN [exact |-> TRUE, v |-> ISqrt(e.arg)]
    ELSE [exact |-> FALSE, v |-> 0]

ElementValues(arr) == [i \in DOMAIN arr |-> ElementValue(arr[i])]

Exactly(ns) == [i \in DOMAIN ns |-> [exact |-> TRUE, v |-> ns[i]]]

\* C16: on the input [4,9,16,25,36] evaluate_transforms returns a sqrt
\* candidate, the array it scores for sqrt is exactly [2,3,4,5,6], of the
\* length and in the order of the positive values, and apply_transform with
\* name = sqrt returns the same array.
C16_SqrtScenario ==
    (nvalues = SqrtScenario /\ pc = "reported") =>
        /\ Has(results, "sqrt")
        /\ Has(scored, "sqrt")
        /\ ElementValues(Lookup(scored, "sqrt").arr) = Exactly(<<2, 3, 4, 5, 6>>)
        /\ ElementValues(apply_transform(nvalues, "sqrt", ExtraNone, 0).out)
              = Exactly(<<2, 3, 4, 5, 6>>)
        /\ best_name = "sqrt" =>
              ElementValues(transformed_values) = Exactly(<<2, 3, 4, 5, 6>>)

C16_Witness ==
    /\ nvalues = SqrtScenario
    /\ pc = "reported"
    /\ best_name = "sqrt"

(***************************************************************************)
(* The scripts that read the yearly counts, one run each, from the load of *)
(* the input CSV to the end of the process: Normality_Check, table_maker,  *)
(* Outlier_Removal, finalData_Tx and phase2_graphs.  An input file is      *)
(* absent, or holds a header (with or without the columns year and         *)
(* num_fell_found) and rows; a num_fell_found cell is a number or text     *)
(* that pd.to_numeric(errors="coerce") turns into NaN.  The year cells are *)
(* taken to be valid.  An uncaught exception ends the process with a       *)
(* traceback and a non-zero exit code; the outcome of such a run is the    *)
(* name of the exception.                                                  *)
(***************************************************************************)
Num(n) == [num |-> TRUE, v |-> n]

Bad == [num |-> FALSE, v |-> 0]

Cells == {Bad} \cup {Num(n) : n \in 0..MaxCell}

Absent == [exists |-> FALSE, has_year |-> FALSE, has_count |-> FALSE, cells |-> <<>>]

InputFiles ==
    {Absent} \cup
    [exists : {TRUE}, has_year : BOOLEAN, has_count : BOOLEAN,
     cells : UNION {[1..n -> Cells] : n \in 0..MaxRows}]

Scripts ==
    {"Normality_Check", "table_maker", "Outlier_Removal", "finalData_Tx",
     "phase2_graphs"}

\* pd.to_numeric(..., errors="coerce") followed by dropna
Coerce(cells) ==
    LET kept == SelectSeq(cells, LAMBDA c : c.num)
    IN  [i \in DOMAIN kept |-> kept[i].v]

\* the column test of each script
RequiredColumns(s, f) ==
    IF s \in {"Normality_Check", "table_maker"}
    THEN f.has_count
    ELSE f.has_year /\ f.has_count

ChecksEmpty(s) == s \in {"Normality_Check", "table_maker"}

NoError == "none"

LoadWithoutEmptyCheck(s, f) ==
    IF ~f.exists
    THEN [error |-> "FileNotFoundError", values |-> <<>>]
    ELSE IF ~RequiredColumns(s, f)
    THEN [error |-> "ValueError: column missing", values |-> <<>>]
    ELSE [error |-> NoError, values |-> Coerce(f.cells)]

\* load_data / load_and_transform / the load section of main
Load(s, f) ==
    IF ~f.exists
    THEN [error |-> "FileNotFoundError", values |-> <<>>]
    ELSE IF ~RequiredColumns(s, f)
    THEN [error |-> "ValueError: column missing", values |-> <<>>]
    ELSE IF ChecksEmpty(s) /\ Coerce(f.cells) = <<>>
    THEN [error |-> "ValueError: no valid numeric values", values |-> <<>>]
    ELSE [error |-> NoError, values |-> Coerce(f.cells)]

\* One step of a main after the load: its name, the output file it writes
\* when it completes, and whether it computes a statistic of the data.
Step(name, output, metric) == [name |-> name, file |-> output, metric |-> metric]

NoFile == "none"

\* the body of each main after the load, in program order
Program(s) ==
    CASE s = "Normality_Check" ->
           <<Step("NC.print_summary", NoFile, TRUE),
             Step("NC.estimate_mode_count", NoFile, TRUE),
             Step("NC.metrics_and_transforms", NoFile, TRUE),
             Step("NC.plot_normality_comparison",
                  "EDA_phase3_normality_comparison.png", FALSE)>>
      [] s = "table_maker" ->
           <<Step("TM.summary_statistics", NoFile, TRUE),
             Step("TM.write_html", "EDA_phase2_table.html", FALSE)>>
      [] s = "Outlier_Removal" ->
           <<Step("OR.iqr_bounds", NoFile, TRUE),
             Step("OR.filter", NoFile, FALSE),
             Step("OR.to_csv", "outlier_filter_2.csv", FALSE),
             Step("OR.plot_box_unfiltered", "EDA_phase3_boxplot_unfiltered.png", TRUE),
             Step("OR.plot_box_filtered", "EDA_phase3_boxplot_filtered.png", TRUE),
             Step("OR.console_summary", NoFile, FALSE)>>
      [] s = "finalData_Tx" ->
           <<Step("P4.to_csv", "final_data_Tx.csv", FALSE),
             Step("P4.plot_scatter",
                  "EDA_phase4_scatter_year_vs_sqrt_counts.png", FALSE),
             Step("P4.plot_histogram", "EDA_phase4_hist_sqrt_counts.png", TRUE),
             Step("P4.plot_box", "EDA_phase4_box_sqrt_counts.png", TRUE),
             Step("P4.plot_qq", "EDA_phase4_qq_sqrt_counts.png", TRUE),
             Step("P4.regression_checks", NoFile, TRUE)>>
      [] s = "phase2_graphs" ->
           <<Step("PG.describe", NoFile, TRUE),
             Step("PG.plot_histogram", "EDA_phase2_hist_num_fell_found.png", TRUE),
             Step("PG.plot_time_series_scatter",
                  "EDA_phase2_scatter_year_counts.png", FALSE),
             Step("PG.plot_qq", "EDA_phase2_qq_num_fell_found.png", TRUE)>>
      [] OTHER -> <<>>

StepErrorsLenient(name, data) == {NoError}

\* The ways a step can end on the loaded data: NoError, or the exception it
\* raises.
\*  - gaussian_kde raises on a single element (ValueError) and on equal
\*    elements (LinAlgError, singular covariance);
\*  - np.percentile raises IndexError on an empty array;
\*  - regression_checks starts with y_sqrt.min() of the data, which raises
\*    ValueError on an empty array;
\*  - plot_histogram of phase2_graphs raises ValueError without a positive
\*    count;
\*  - what the plots of finalData_Tx do on an empty frame depends on the
\*    plotting library: they complete or raise.
StepErrors(name, data) ==
    IF name = "NC.estimate_mode_count" /\ IsConstant(data)
    THEN {IF Len(data) = 1 THEN "ValueError" ELSE "LinAlgError"}
    ELSE IF name = "OR.iqr_bounds" /\ data = <<>>
    THEN {"IndexError"}
    ELSE IF name = "P4.regression_checks" /\ data = <<>>
    THEN {"ValueError"}
    ELSE IF name = "PG.plot_histogram" /\ \A i \in DOMAIN data : data[i] <= 0
    THEN {"ValueError"}
    ELSE IF name \in {"P4.plot_scatter", "P4.plot_histogram", "P4.plot_box",
                      "P4.plot_qq"} /\ data = <<>>
    THEN {NoError, "ValueError"}
    ELSE {NoError}

InitScripts ==
    /\ FilterIdle
    /\ NormIdle
    /\ ModeIdle
    /\ PureIdle
    /\ PrepIdle
    /\ script \in Scripts
    /\ file \in InputFiles
    /\ step_i = 0
    /\ loaded = <<>>
    /\ metrics_done = FALSE
    /\ written = <<>>
    /\ outcome = "running"

\* the load of the input file, with its checks
LoadInput ==
    /\ outcome = "running"
    /\ step_i = 0
    /\ \E r \in {Load(script, file)} :
          IF r.error # NoError
          THEN /\ outcome' = r.error
               /\ UNCHANGED <<step_i, loaded>>
          ELSE /\ loaded' = r.values
               /\ step_i' = 1
               /\ UNCHANGED outcome
    /\ UNCHANGED <<script, file, metrics_done, written,
                   filterVars, normVars, modeVars, pureVars, prepVars>>

\* the next step of main: it raises, or it completes and writes its file
RunStep ==
    /\ outcome = "running"
    /\ step_i \in 1..Len(Program(script))
    /\ \E st \in {Program(script)[step_i]} :
       \E e \in StepErrors(st.name, loaded) :
          IF e # NoError
          THEN /\ outcome' = e
               /\ UNCHANGED <<step_i, metrics_done, written>>
          ELSE /\ step_i' = step_i + 1
               /\ metrics_done' = (metrics_done \/ st.metric)
               /\ written' = IF st.file # NoFile THEN Append(written, st.file)
                                                  ELSE written
               /\ UNCHANGED outcome
    /\ UNCHANGED <<script, file, loaded, filterVars, normVars, modeVars, pureVars, prepVars>>

\* main returns: the process ends with exit code 0
ExitScript ==
    /\ outcome = "running"
    /\ step_i > Len(Program(script))
    /\ outcome' = "exit0"
    /\ UNCHANGED <<script, file, step_i, loaded, metrics_done, written,
                   filterVars, normVars, modeVars, pureVars, prepVars>>

NextScripts ==
    \/ LoadInput
    \/ RunStep
    \/ ExitScript

SpecScripts == InitScripts /\ [][NextScripts]_vars

\* a script is one sequential process: it keeps running until it ends
SpecScriptsFair == SpecScripts /\ WF_vars(NextScripts)

Failed == outcome \notin {"idle", "running", "exit0"}

(***************************************************************************)
(* Properties of the script runs.                                          *)
(***************************************************************************)
\* C17 as stated: no output file is written before all computation of the
\* script has completed, so a run that ends in an error has written no
\* output file; in particular no failure while plotting or in the regression
\* checks comes after the CSV has been written.
C17_AsStated == Failed => written = <<>>

RECURSIVE NumbersOf(_)
\* the numbers among the cells, in row order
NumbersOf(cells) ==
    IF cells = <<>> THEN <<>>
    ELSE (IF Head(cells).num THEN <<Head(cells).v>> ELSE <<>>)
            \o NumbersOf(Tail(cells))

HasNumber(f) == \E i \in DOMAIN f.cells : f.cells[i].num

LoadFinished == step_i >= 1 \/ Failed \/ outcome = "exit0"

LoadErrors ==
    {"FileNotFoundError", "ValueError: column missing",
     "ValueError: no valid numeric values"}

\* C18: the loader of Normality_Check and of table_maker fails with
\* FileNotFoundError when the file is absent, else with the column error when
\* num_fell_found is missing (whatever the rows hold), else with the fatal
\* "no valid numeric values" error when no cell is numeric; otherwise it
\* drops the cells that are not numeric and returns the others in row order.
\* A run that failed in the loader has computed no metric and written nothing.
C18_LoaderChecksInOrder ==
    (script \in {"Normality_Check", "table_maker"} /\ LoadFinished) =>
        /\ ~file.exists => outcome = "FileNotFoundError"
        /\ (file.exists /\ ~file.has_count) => outcome = "ValueError: column missing"
        /\ (file.exists /\ file.has_count /\ ~HasNumber(file)) =>
              outcome = "ValueError: no valid numeric values"
        /\ (file.exists /\ file.has_count /\ HasNumber(file)) =>
              /\ outcome \notin LoadErrors
              /\ loaded = NumbersOf(file.cells)
        /\ outcome \in LoadErrors =>
              /\ step_i = 0
              /\ ~metrics_done
              /\ written = <<>>

C18_Witness ==
    /\ script = "table_maker"
    /\ file.exists /\ ~file.has_count
    /\ file.cells # <<>> /\ ~HasNumber(file)
    /\ outcome = "ValueError: column missing"

C18_WitnessDropped ==
    /\ script = "table_maker"
    /\ outcome = "exit0"
    /\ Len(file.cells) = 2 /\ ~file.cells[1].num
    /\ Len(loaded) = 1

C18_WitnessFatal ==
    /\ script = "Normality_Check"
    /\ file.exists /\ file.has_count
    /\ file.cells # <<>> /\ ~HasNumber(file)
    /\ outcome = "ValueError: no valid numeric values"

C19_Safety ==
    /\ outcome \in {"running", "exit0"} \/ Failed
    /\ outcome = "exit0" =>
          /\ file.exists
          /\ RequiredColumns(script, file)
          /\ HasNumber(file)

PureInputs == {s \in NormInputs : Len(s) <= 2}

PureOracle ==
    [identity : {ShapeAt(0)}, log1p : {ShapeAt(0)}, sqrt : {ShapeAt(0)},
     cuberoot : {ShapeAt(0)}, boxcox : {ShapeAt(0)},
     bc_ok : BOOLEAN, lam : 0..MaxLambda]

InitPure ==
    /\ FilterIdle
    /\ NormIdle
    /\ ModeIdle
    /\ ScriptIdle
    /\ PrepIdle
    /\ given \in PureInputs
    /\ mem = <<given>>
    /\ lib \in PureOracle
    /\ calls = <<>>

CallerBuffer == 1

ResultBufferAliased(name, fresh) == IF name = "identity" THEN CallerBuffer ELSE fresh

\* The buffer of the array apply_transform returns: values.copy(), the
\* result of a ufunc or of stats.boxcox, each a new array.
ResultBuffer(name, fresh) == fresh

\* the arguments a caller may pass to apply_transform
ApplyNames == {"identity", "log1p", "sqrt", "cuberoot", "boxcox", "other"}

ApplyExtras == {ExtraNone, ExtraError} \cup {ExtraLambda(l) : l \in 0..MaxLambda}

\* Box-Cox needs positive data with spread; otherwise stats.boxcox raises
ApplyRaises(name, extra) ==
    /\ name = "boxcox"
    /\ \/ PositiveValues(mem[CallerBuffer]) = <<>>
       \/ extra.tag # "lambda" /\ BoxcoxRaises(PositiveValues(mem[CallerBuffer]), lib)

Returned(call) ==
    IF call.fn = "evaluate_transforms"
    THEN [raised |-> FALSE, buf |-> 0, arr |-> <<>>,
          dict |-> evaluate_transforms(mem[CallerBuffer], lib).results]
    ELSE IF ApplyRaises(call.name, call.extra)
    THEN [raised |-> TRUE, buf |-> 0, arr |-> <<>>, dict |-> <<>>]
    ELSE [raised |-> FALSE,
          buf |-> ResultBuffer(call.name, Len(mem) + 1),
          arr |-> apply_transform(mem[CallerBuffer], call.name, call.extra,
                                  lib.lam).out,
          dict |-> <<>>]

\* one invocation: the memory after it and its record in calls
Perform(call) ==
    \E r \in {Returned(call)} :
        /\ mem' = IF r.buf = 0 THEN mem
                  ELSE IF r.buf > Len(mem) THEN Append(mem, r.arr)
                  ELSE [mem EXCEPT ![r.buf] = r.arr]
        /\ calls' = Append(calls, [call |-> call, ret |-> r])

Invoke ==
    /\ calls = <<>>
    /\ \E call \in {[fn |-> "evaluate_transforms", name |-> "none", extra |-> ExtraNone]}
                 \cup [fn : {"apply_transform"}, name : ApplyNames, extra : ApplyExtras] :
          Perform(call)
    /\ UNCHANGED <<given, lib, filterVars, normVars, modeVars, scriptVars, prepVars>>

\* the caller assigns to an element of the array the last call returned
OverwriteResult ==
    /\ Len(calls) = 1
    /\ calls[1].ret.buf # 0
    /\ \E i \in DOMAIN mem[calls[1].ret.buf] :
          /\ mem[calls[1].ret.buf][i] # Raw(MaxPos + 1)
          /\ mem' = [mem EXCEPT ![calls[1].ret.buf][i] = Raw(MaxPos + 1)]
    /\ UNCHANGED <<given, lib, calls, filterVars, normVars, modeVars, scriptVars, prepVars>>

InvokeAgain ==
    /\ Len(calls) = 1
    /\ Perform(calls[1].call)
    /\ UNCHANGED <<given, lib, filterVars, normVars, modeVars, scriptVars, prepVars>>

NextPure ==
    \/ Invoke
    \/ OverwriteResult
    \/ InvokeAgain

SpecPure == InitPure /\ [][NextPure]_vars

\* C20: evaluate_transforms and apply_transform leave the caller's array as
\* it was, also after the caller has written into the array apply_transform
\* returned (the returned array is a buffer of its own, different for every
\* call); and a second invocation with the same arguments returns what the
\* first returned, whatever happened to the first result in between.
C20_PureAndFreshCopy ==
    /\ mem[CallerBuffer] = given
    /\ \A k \in DOMAIN calls :
          calls[k].ret.buf # 0 =>
              /\ calls[k].ret.buf # CallerBuffer
              /\ \A j \in DOMAIN calls : j # k => calls[j].ret.buf # calls[k].ret.buf
    /\ Len(calls) = 2 =>
          /\ calls[2].ret.raised = calls[1].ret.raised
          /\ calls[2].ret.arr = calls[1].ret.arr
          /\ calls[2].ret.dict = calls[1].ret.dict

C20_Witness ==
    /\ Len(calls) = 2
    /\ calls[1].call.name = "identity"
    /\ Len(given) = 2
    /\ mem[calls[1].ret.buf] # calls[1].ret.arr
    /\ mem[calls[2].ret.buf] = given

(***************************************************************************)
(* py_plot_raw_data.build_jittered_coords.  A generator is its seed and    *)
(* the number of draws made from it; the k-th draw of a generator is the   *)
(* value [seed, k], a fixed function of the seed and of k as the bit       *)
(* generator makes it.  A call is one action: it creates its generator,    *)
(* walks the categories and, per category, the years in ascending order,   *)
(* and draws one jitter per row.                                           *)
(***************************************************************************)
OldVars == <<filterVars, normVars, modeVars, scriptVars, pureVars>>

\* dataframes main can hand over: not empty, fall is Fell or Found
JitterInputs ==
    UNION {[1..n -> [fall : {"Fell", "Found"}, year_int : 1..MaxYear]] : n \in 1..MaxPoints}

default_rng(seed) == [seed |-> seed, drawn |-> 0]

GeneratorShared(previous) == IF previous.seed = 42 THEN previous ELSE default_rng(42)

\* rng = np.random.default_rng(seed=42), whatever generator existed before
Generator(previous) == default_rng(42)

\* len(group) for one category and year
GroupSize(d, category, year) ==
    Cardinality({i \in DOMAIN d : d[i].fall = category /\ d[i].year_int = year})

\* the loop over df_cat.groupby("year_int"), from year on, with generator g
RECURSIVE GroupLoop(_, _, _, _)
GroupLoop(d, category, year, g) ==
    IF year > MaxYear
    THEN [x_vals |-> <<>>, y_vals |-> <<>>, rng |-> g]
    ELSE LET n == GroupSize(d, category, year)
             y_jittered == [i \in 1..n |->
                              [index |-> i,
                               jitter |-> [seed |-> g.seed, k |-> g.drawn + i]]]
             rest == GroupLoop(d, category, year + 1, [g EXCEPT !.drawn = @ + n])
         IN  [x_vals |-> [i \in 1..n |-> year] \o rest.x_vals,
              y_vals |-> y_jittered \o rest.y_vals,
              rng |-> rest.rng]

build_jittered_coords(d, previous) ==
    LET fell == GroupLoop(d, "Fell", 1, Generator(previous))
        found == GroupLoop(d, "Found", 1, fell.rng)
    IN  [category_coords |->
             [Fell |-> <<fell.x_vals, fell.y_vals>>,
              Found |-> <<found.x_vals, found.y_vals>>],
         rng |-> found.rng]

InitJitter ==
    /\ FilterIdle
    /\ NormIdle
    /\ ModeIdle
    /\ ScriptIdle
    /\ PureIdle
    /\ YearIdle
    /\ RefactorIdle
    /\ YearlyIdle
    /\ TxIdle
    /\ PipeIdle
    /\ SkewIdle
    /\ df \in JitterInputs
    /\ rng = [seed |-> 0, drawn |-> 0]
    /\ jitter_runs = <<>>

CallOn(d) ==
    \E r \in {build_jittered_coords(d, rng)} :
        /\ rng' = r.rng
        /\ jitter_runs' = Append(jitter_runs, [df |-> d, coords |-> r.category_coords])
        /\ UNCHANGED <<df, OldVars, yearVars, refactorVars, yearlyVars, txVars, pipeVars, skewVars>>

\* a call on some other dataframe before the runs that are compared
EarlierCall ==
    /\ jitter_runs = <<>>
    /\ \E d \in JitterInputs \ {df} : CallOn(d)

CallBuildJitteredCoords ==
    /\ Len(jitter_runs) < 3
    /\ CallOn(df)

NextJitter ==
    \/ EarlierCall
    \/ CallBuildJitteredCoords

SpecJitter == InitJitter /\ [][NextJitter]_vars

\* C21: the jitter is reproducible: any two calls of build_jittered_coords on
\* the same dataframe return the same coordinates for every point of Fell and
\* of Found, whatever was called before them; and every call has one point
\* per row of the category.
C21_JitterReproducible ==
    \A i, j \in DOMAIN jitter_runs :
        /\ jitter_runs[i].df = jitter_runs[j].df =>
               jitter_runs[i].coords = jitter_runs[j].coords
        /\ \A c \in {"Fell", "Found"} :
               /\ Len(jitter_runs[i].coords[c][1]) =
                     Cardinality({k \in DOMAIN jitter_runs[i].df : jitter_runs[i].df[k].fall = c})
               /\ Len(jitter_runs[i].coords[c][2]) = Len(jitter_runs[i].coords[c][1])

C21_Witness ==
    /\ Len(jitter_runs) = 3
    /\ jitter_runs[1].df # df
    /\ jitter_runs[2].df = df
    /\ jitter_runs[3].df = df
    /\ jitter_runs[3].coords["Fell"][1] # <<>>
    /\ jitter_runs[3].coords["Found"][1] # <<>>

(***************************************************************************)
(* py_refactorData_mk1.extract_year_from_string.  A string is a sequence   *)
(* of characters.  str.isdigit() is true of the decimal digits and also of *)
(* characters such as the superscript two, which int() does not accept;    *)
(* the argument is given by its string form str(val).                      *)
(***************************************************************************)
DecimalDigits == {"0", "1", "2", "3", "4", "5", "6", "7", "8", "9"}

Superscript2 == "s2"   \* the character U+00B2

Space == " "

IsDigit(ch) == ch \in DecimalDigits \cup {Superscript2}

DigitValue(ch) ==
    CASE ch = "0" -> 0 [] ch = "1" -> 1 [] ch = "2" -> 2 [] ch = "3" -> 3
      [] ch = "4" -> 4 [] ch = "5" -> 5 [] ch = "6" -> 6 [] ch = "7" -> 7
      [] ch = "8" -> 8 [] ch = "9" -> 9

\* str.strip()
RECURSIVE LStrip(_)
LStrip(s) == IF s # <<>> /\ Head(s) = Space THEN LStrip(Tail(s)) ELSE s

RECURSIVE RStrip(_)
RStrip(s) ==
    IF s # <<>> /\ s[Len(s)] = Space THEN RStrip(SubSeq(s, 1, Len(s) - 1)) ELSE s

Strip(s) == RStrip(LStrip(s))

NA == [kind |-> "NA", v |-> 0]

IntOf(n) == [kind |-> "int", v |-> n]

Raised(e) == [kind |-> e, v |-> 0]

\* "".join(digits) as a base-10 number, for decimal digits
RECURSIVE Base10(_)
Base10(digits) ==
    IF digits = <<>> THEN 0
    ELSE 10 * Base10(SubSeq(digits, 1, Len(digits) - 1)) + DigitValue(digits[Len(digits)])

\* int("".join(digits))
ParseInt(digits) ==
    IF \A i \in DOMAIN digits : digits[i] \in DecimalDigits
    THEN IntOf(Base10(digits))
    ELSE Raised("ValueError")

\* the for loop: the digits collected from s[i..], given those collected so far
RECURSIVE ScanDigits(_, _, _)
ScanDigits(s, i, digits) ==
    IF i > Len(s) THEN digits
    ELSE IF IsDigit(s[i])
    THEN IF Len(digits) + 1 = 4 THEN Append(digits, s[i])
         ELSE ScanDigits(s, i + 1, Append(digits, s[i]))
    ELSE digits

extract_year_from_string(str_val) ==
    LET s == Strip(str_val)
        digits == ScanDigits(s, 1, <<>>)
    IN  IF s = <<>> THEN NA
        ELSE IF digits = <<>> THEN NA
        ELSE ParseInt(digits)

YearAlphabet == {"0", "1", "2", "3", Space, "-", Superscript2}

\* the examples of the docstring: '860-01-01T00:00:00', '1880-01-01T00:00:00', str(1985.0)
YearExamples ==
    {<<"8","6","0","-","0","1","-","0","1","T","0","0",":","0","0",":","0","0">>,
     <<"1","8","8","0","-","0","1","-","0","1","T","0","0",":","0","0",":","0","0">>,
     <<"1","9","8","5",".","0">>}

YearStrings == UNION {[1..n -> YearAlphabet] : n \in 0..MaxChars} \cup YearExamples

InitYear ==
    /\ FilterIdle
    /\ NormIdle
    /\ ModeIdle
    /\ ScriptIdle
    /\ PureIdle
    /\ JitterIdle
    /\ RefactorIdle
    /\ YearlyIdle
    /\ TxIdle
    /\ PipeIdle
    /\ SkewIdle
    /\ val \in YearStrings
    /\ year_int = [kind |-> "none", v |-> 0]

CallExtractYear ==
    /\ year_int.kind = "none"
    /\ year_int' = extract_year_from_string(val)
    /\ UNCHANGED <<val, OldVars, jitterVars, refactorVars, yearlyVars, txVars, pipeVars, skewVars>>

NextYear == CallExtractYear

SpecYear == InitYear /\ [][NextYear]_vars

\* the leading digits of s, at most four of them
LeadingDigits(s) ==
    LET n == CHOOSE k \in 0..4 :
                 /\ k <= Len(s)
                 /\ \A i \in 1..k : IsDigit(s[i])
                 /\ k = 4 \/ k = Len(s) \/ ~IsDigit(s[k + 1])
    IN  SubSeq(s, 1, n)

FirstIsDigit(s) == s # <<>> /\ IsDigit(s[1])

\* C22 as stated: the call returns NA exactly when the stripped string is
\* empty or does not start with a digit, and otherwise the integer formed by
\* its leading digits (at most four), which lies in 0..9999.
C22_AsStated ==
    year_int.kind # "none" =>
        /\ year_int = NA <=> ~FirstIsDigit(Strip(val))
        /\ year_int # NA =>
              /\ year_int.kind = "int"
              /\ year_int.v \in 0..9999
              /\ \A i \in DOMAIN LeadingDigits(Strip(val)) :
                    LeadingDigits(Strip(val))[i] \in DecimalDigits
              /\ year_int.v = Base10(LeadingDigits(Strip(val)))

\* what holds of every call whose leading digits are all decimal digits
C22_OnDecimalDigits ==
    (\A i \in DOMAIN LeadingDigits(Strip(val)) :
         LeadingDigits(Strip(val))[i] \in DecimalDigits) => C22_AsStated

C22_Examples ==
    year_int.kind # "none" /\ val \in YearExamples =>
        year_int \in {IntOf(860), IntOf(1880), IntOf(1985)}

(***************************************************************************)
(* py_refactorData_mk1.main.  A row of Meteorite_Landings.csv is its year  *)
(* cell, its fall cell and the content of its remaining columns.           *)
(***************************************************************************)
YearCells ==
    {<<"2", "0", "1", "3">>, <<"2", "0", "2", "0">>, <<"1", "3", "0", "-">>,
     <<>>, <<Superscript2>>}

FallCells == {"Fell", " found", "Relict"}

OtherCells == {1, 2}

RefactorRows == [year : YearCells, fall : FallCells, other : OtherCells]

RefactorInputs == UNION {[1..n -> RefactorRows] : n \in 0..MaxRecords}

\* astype(str).str.strip().str.title()
StripTitle(fall) ==
    CASE fall = "Fell" -> "Fell"
      [] fall = " found" -> "Found"
      [] fall = "Relict" -> "Relict"

KeepDuplicates(rows) == rows

\* df.drop_duplicates(): the first of equal rows stays
DropDuplicates(rows) ==
    LET first == [i \in DOMAIN rows |-> \A j \in 1..(i - 1) : rows[j] # rows[i]]
    IN  Compress(rows, first)

RECURSIVE Ascending(_)
Ascending(S) ==
    IF S = {} THEN <<>>
    ELSE LET m == CHOOSE x \in S : \A y \in S : x <= y
         IN  <<m>> \o Ascending(S \ {m})

\* df.groupby(column).size().reset_index(name=...).sort_values(column)
GroupSizes(keys) ==
    LET ks == Ascending({keys[i] : i \in DOMAIN keys})
    IN  [k \in DOMAIN ks |->
            [year |-> ks[k],
             count |-> Cardinality({i \in DOMAIN keys : keys[i] = ks[k]})]]

WithYear(row) ==
    [year |-> row.year, fall |-> row.fall, other |-> row.other,
     year_int |-> extract_year_from_string(row.year)]

WithFallClean(row) ==
    [year |-> row.year, fall |-> row.fall, other |-> row.other,
     year_int |-> row.year_int, fall_clean |-> StripTitle(row.fall)]

HasYear(row) == row.year_int # NA

FellOrFound(row) == row.fall_clean \in {"Fell", "Found"}

UpTo2013(row) == row.year_int.v <= 2013

RefactorMain(rows) ==
    LET applied == [i \in DOMAIN rows |-> WithYear(rows[i])]
    IN  IF \E i \in DOMAIN applied : applied[i].year_int.kind = "ValueError"
        THEN [ran |-> TRUE, error |-> "ValueError", written |-> FALSE,
              n_after_filters |-> 0, grouped |-> <<>>]
        ELSE LET valid == SelectSeq(applied, HasYear)
                 cleaned == [i \in DOMAIN valid |-> WithFallClean(valid[i])]
                 kept == SelectSeq(cleaned, FellOrFound)
                 unique == DropDuplicates(kept)
                 recent == SelectSeq(unique, UpTo2013)
             IN  [ran |-> TRUE, error |-> NoError, written |-> TRUE,
                  n_after_filters |-> Len(recent),
                  grouped |-> GroupSizes([i \in DOMAIN recent |-> recent[i].year_int.v])]

InitRefactor ==
    /\ FilterIdle
    /\ NormIdle
    /\ ModeIdle
    /\ ScriptIdle
    /\ PureIdle
    /\ JitterIdle
    /\ YearIdle
    /\ YearlyIdle
    /\ TxIdle
    /\ PipeIdle
    /\ SkewIdle
    /\ raw \in RefactorInputs
    /\ refactor = NotRun

RunRefactor ==
    /\ ~refactor.ran
    /\ refactor' = RefactorMain(raw)
    /\ UNCHANGED <<raw, OldVars, jitterVars, yearVars, yearlyVars, txVars, pipeVars, skewVars>>

NextRefactor == RunRefactor

SpecRefactor == InitRefactor /\ [][NextRefactor]_vars

\* the different rows of the input whose year is valid and at most 2013 and
\* whose fall cell satisfies accepted
Surviving(accepted(_)) ==
    {raw[i] : i \in {j \in DOMAIN raw :
        /\ extract_year_from_string(raw[j].year).kind = "int"
        /\ extract_year_from_string(raw[j].year).v <= 2013
        /\ accepted(raw[j].fall)}}

OneRowPerYear(accepted(_)) ==
    refactor.ran /\ refactor.written =>
        LET g == refactor.grouped
            rows == Surviving(accepted)
            of(y) == {r \in rows : extract_year_from_string(r.year).v = y}
        IN  /\ \A k \in DOMAIN g :
                  /\ g[k].year <= 2013
                  /\ of(g[k].year) # {}
                  /\ g[k].count = Cardinality(of(g[k].year))
                  /\ g[k].count >= 1
            /\ \A r \in rows : \E k \in DOMAIN g :
                  g[k].year = extract_year_from_string(r.year).v
            /\ \A k \in 1..(Len(g) - 1) : g[k].year < g[k + 1].year
            /\ SumSeq([k \in DOMAIN g |-> g[k].count]) = Cardinality(rows)
            /\ refactor.n_after_filters = Cardinality(rows)

IsFellOrFound(fall) == fall \in {"Fell", "Found"}

CleansToFellOrFound(fall) == StripTitle(fall) \in {"Fell", "Found"}

C23_WitnessTwoYears ==
    /\ refactor.ran
    /\ Len(refactor.grouped) = 2
    /\ raw[1].year = <<"2", "0", "1", "3">>

(***************************************************************************)
(* filter_script_1.main and filter_script_2.main up to the CSV they write. *)
(* Both read the Meteorite_Landings.csv next to them.  A row is its year   *)
(* cell and the content of its other columns; a year cell is a number (a   *)
(* calendar year, possibly stored as a float), missing, or text.           *)
(***************************************************************************)
YearNum(y) == [kind |-> "num", v |-> y]

YearMissing == [kind |-> "missing", v |-> 0]

YearText == [kind |-> "text", v |-> 0]

\* the years of the input: inside the range, and just outside each end
InsideYears == <<2013, 1800, 2012, 1801>>

OutsideYears == {1799, 2014}

\* n different rows with the same year cell
RowsOfYear(cell, n) == [i \in 1..n |-> [year |-> cell, other |-> i]]

LandingsOf(per_year, outside, missing, text, dup) ==
    LET rows == RowsOfYear(YearNum(InsideYears[1]), per_year[1])
                \o (IF 2014 \in outside THEN RowsOfYear(YearNum(2014), 1) ELSE <<>>)
                \o RowsOfYear(YearNum(InsideYears[2]), per_year[2])
                \o (IF missing THEN RowsOfYear(YearMissing, 1) ELSE <<>>)
                \o RowsOfYear(YearNum(InsideYears[3]), per_year[3])
                \o (IF 1799 \in outside THEN RowsOfYear(YearNum(1799), 1) ELSE <<>>)
                \o RowsOfYear(YearNum(InsideYears[4]), per_year[4])
                \o (IF text THEN RowsOfYear(YearText, 1) ELSE <<>>)
    IN  IF dup /\ rows # <<>> THEN Append(rows, rows[1]) ELSE rows

LandingsInputs ==
    {LandingsOf(per_year, outside, missing, text, dup) :
        per_year \in [1..4 -> 0..MaxPerYear], outside \in SUBSET OutsideYears,
        missing \in BOOLEAN, text \in BOOLEAN, dup \in BOOLEAN}

YearPresent(row) == row.year.kind # "missing"

\* astype(int) raises on a cell that is not a number
AsTypeIntRaises(rows) == \E i \in DOMAIN rows : rows[i].year.kind = "text"

YearAsInt(row) == [year |-> row.year.v, other |-> row.other]

YearInRangeExclusive(row) == row.year >= 1800 /\ row.year < 2013

YearInRange(row) == row.year >= 1800 /\ row.year <= 2013

\* sections 3 to 5 of both scripts: the aggregated frame, or the error
AggregateByYear(rows) ==
    LET present == SelectSeq(rows, YearPresent)
    IN  IF AsTypeIntRaises(present)
        THEN [error |-> "ValueError", agg |-> <<>>]
        ELSE LET converted == [i \in DOMAIN present |-> YearAsInt(present[i])]
                 ranged == SelectSeq(converted, YearInRange)
                 unique == DropDuplicates(ranged)
             IN  [error |-> NoError,
                  agg |-> GroupSizes([i \in DOMAIN unique |-> unique[i].year])]

FilterScript1Main(rows) ==
    LET a == AggregateByYear(rows)
    IN  [ran |-> TRUE, error |-> a.error, written |-> a.error = NoError,
         csv |-> a.agg]

\* Series.quantile of an empty column is NaN and no row passes the comparison
FilterScript2Main(rows) ==
    LET a == AggregateByYear(rows)
        counts == [k \in DOMAIN a.agg |-> a.agg[k].count]
        bounds == FilterScript2(counts)
        keep == [k \in DOMAIN a.agg |->
                    /\ 8 * a.agg[k].count >= bounds.lower_bound
                    /\ 8 * a.agg[k].count <= bounds.upper_bound]
    IN  [ran |-> TRUE, error |-> a.error, written |-> a.error = NoError,
         csv |-> IF a.agg = <<>> THEN <<>> ELSE Compress(a.agg, keep)]

InitYearly ==
    /\ FilterIdle
    /\ NormIdle
    /\ ModeIdle
    /\ ScriptIdle
    /\ PureIdle
    /\ JitterIdle
    /\ YearIdle
    /\ RefactorIdle
    /\ TxIdle
    /\ PipeIdle
    /\ SkewIdle
    /\ landings \in LandingsInputs
    /\ filter1 = NotRun
    /\ filter2 = NotRun

RunFilterScript1Main ==
    /\ ~filter1.ran
    /\ filter1' = FilterScript1Main(landings)
    /\ UNCHANGED <<landings, filter2, OldVars, jitterVars, yearVars, refactorVars, txVars, pipeVars, skewVars>>

RunFilterScript2Main ==
    /\ ~filter2.ran
    /\ filter2' = FilterScript2Main(landings)
    /\ UNCHANGED <<landings, filter1, OldVars, jitterVars, yearVars, refactorVars, txVars, pipeVars, skewVars>>

NextYearly ==
    \/ RunFilterScript1Main
    \/ RunFilterScript2Main

SpecYearly == InitYearly /\ [][NextYearly]_vars

\* the different rows of the input with a year between 1800 and 2013
RemainingRows ==
    {landings[i] : i \in {j \in DOMAIN landings :
        /\ landings[j].year.kind = "num"
        /\ landings[j].year.v >= 1800
        /\ landings[j].year.v <= 2013}}

\* the rows [year, aggregate_falls] the remaining rows call for
ExpectedAggregate ==
    {[year |-> y, count |-> Cardinality({r \in RemainingRows : r.year.v = y})] :
        y \in {r.year.v : r \in RemainingRows}}

RowsOfCsv(csv) == {csv[k] : k \in DOMAIN csv}

WithinIqrBounds(row) ==
    LET years == Ascending({r.year : r \in ExpectedAggregate})
        falls == [k \in DOMAIN years |->
                    (CHOOSE r \in ExpectedAggregate : r.year = years[k]).count]
        q1 == InterpolatedQuartile(falls, 25)
        q3 == InterpolatedQuartile(falls, 75)
    IN  /\ 2 * 8 * row.count >= 2 * q1 - 3 * (q3 - q1)
        /\ 2 * 8 * row.count <= 2 * q3 + 3 * (q3 - q1)

YearFraction == [kind |-> "fraction", v |-> 0]   \* a number that is not whole

TxYearCells == {YearNum(y) : y \in 1..MaxYear} \cup {YearFraction, YearText}

TxCountCells == {Bad} \cup {Num(n) : n \in (0 - 1)..MaxCell}

TxInputs ==
    {[exists |-> FALSE, has_columns |-> FALSE, rows |-> <<>>],
     [exists |-> TRUE, has_columns |-> FALSE, rows |-> <<>>]}
    \cup [exists : {TRUE}, has_columns : {TRUE},
          rows : UNION {[1..n -> [year : TxYearCells, count : TxCountCells]] :
                           n \in 0..MaxRows}]

\* pd.to_numeric(errors="coerce") leaves numbers and turns text into NaN;
\* dropna then removes the rows with a NaN in either column
Numeric(row) == row.year.kind # "text" /\ row.count.num

\* astype("Int64") refuses a float column holding a number that is not whole
ToInt64Raises(rows) == \E i \in DOMAIN rows : rows[i].year.kind = "fraction"

\* sort_values("year") with the default sort: ascending years, rows of the
\* same year in an order the sort algorithm chooses
SortedByYear(rows) ==
    {[i \in DOMAIN rows |-> rows[p[i]]] :
        p \in {q \in [DOMAIN rows -> DOMAIN rows] :
                  /\ \A i, j \in DOMAIN rows : i # j => q[i] # q[j]
                  /\ \A i \in 1..(Len(rows) - 1) :
                        rows[q[i]].year.v <= rows[q[i + 1]].year.v}}

ClipNone(x) == x

\* clip(lower=0)
Clip(x) == IF x < 0 THEN 0 ELSE x

Sqrt(x) == IF x < 0 THEN NaN ELSE [kind |-> "sqrt", v |-> x]

\* the rows of the returned frame, given the order the sort produced
Transformed(sorted) ==
    [i \in DOMAIN sorted |->
        [year |-> sorted[i].year.v,
         num_fell_found |-> sorted[i].count.v,
         num_fell_found_sqrt |-> Sqrt(Clip(sorted[i].count.v))]]

\* the results load_and_transform can have on f
load_and_transform(f) ==
    IF ~f.exists THEN {[ran |-> TRUE, error |-> "FileNotFoundError", df |-> <<>>]}
    ELSE IF ~f.has_columns THEN {[ran |-> TRUE, error |-> "ValueError", df |-> <<>>]}
    ELSE IF ToInt64Raises(f.rows) THEN {[ran |-> TRUE, error |-> "TypeError", df |-> <<>>]}
    ELSE {[ran |-> TRUE, error |-> NoError, df |-> Transformed(sorted)] :
             sorted \in SortedByYear(SelectSeq(f.rows, Numeric))}

InitTx ==
    /\ FilterIdle
    /\ NormIdle
    /\ ModeIdle
    /\ ScriptIdle
    /\ PureIdle
    /\ JitterIdle
    /\ YearIdle
    /\ RefactorIdle
    /\ YearlyIdle
    /\ PipeIdle
    /\ SkewIdle
    /\ tx_input \in TxInputs
    /\ tx = NotRun

CallLoadAndTransform ==
    /\ ~tx.ran
    /\ tx' \in load_and_transform(tx_input)
    /\ UNCHANGED <<tx_input, OldVars, jitterVars, yearVars, refactorVars, yearlyVars, pipeVars, skewVars>>

NextTx == CallLoadAndTransform

SpecTx == InitTx /\ [][NextTx]_vars

\* the valid rows of the input, as a bag of <<year, count>>
ValidRowsBag ==
    LET valid == SelectSeq(tx_input.rows, Numeric)
    IN  SeqToBag([i \in DOMAIN valid |-> <<valid[i].year.v, valid[i].count.v>>])

ReturnedRowsBag ==
    SeqToBag([i \in DOMAIN tx.df |-> <<tx.df[i].year, tx.df[i].num_fell_found>>])

\* what C25 says of every returned frame, root(x) being the value the
\* transformed column must hold in a row whose count is x
RootColumn(root(_)) ==
    tx.ran /\ tx.error = NoError =>
        /\ ReturnedRowsBag = ValidRowsBag
        /\ \A i \in 1..(Len(tx.df) - 1) : tx.df[i].year <= tx.df[i + 1].year
        /\ \A i \in DOMAIN tx.df :
              /\ tx.df[i].num_fell_found_sqrt = root(tx.df[i].num_fell_found)
              /\ tx.df[i].num_fell_found_sqrt # NaN
              /\ tx.df[i].num_fell_found_sqrt.kind = "sqrt"
              /\ tx.df[i].num_fell_found_sqrt.v >= 0

RootOfClipped(x) == Sqrt(IF x < 0 THEN 0 ELSE x)

C26_IdentityAloneOrAllFive ==
    results # <<>> =>
        /\ Has(results, "identity")
        /\ Len(results) = Cardinality(Names(results))
        /\ \/ Names(results) = {"identity"} /\ PositivePart(nvalues) = <<>>
           \/ /\ Names(results) = {"identity", "log1p", "sqrt", "cuberoot", "boxcox"}
              /\ PositivePart(nvalues) # <<>>

C26_Witness ==
    /\ pc = "reported"
    /\ Len(results) = 5
    /\ Lookup(results, "boxcox").extra = ExtraError
    /\ Lookup(results, "boxcox").score = Inf

C26_WitnessIdentityAlone ==
    /\ pc = "reported"
    /\ Len(results) = 1
    /\ Len(nvalues) >= 2

\* C27: the score of the selected candidate is at most the score of the
\* identity candidate, and a reported relative improvement lies between 0
\* and 100 percent, both ends included.
C27_NeverWorseThanIdentity ==
    pc = "reported" =>
        /\ FLe(best_score, Lookup(results, "identity").score)
        /\ improvement.reported =>
              /\ improvement.den > 0
              /\ improvement.num >= 0
              /\ improvement.num <= 100 * improvement.den

C27_Witness ==
    /\ pc = "reported"
    /\ improvement.reported
    /\ improvement.num = 100 * improvement.den
    /\ best_name # "identity"

C27_WitnessNoGain ==
    /\ pc = "reported"
    /\ improvement.reported
    /\ improvement.num = 0
    /\ \E i \in DOMAIN results : results[i].score = NaN

(***************************************************************************)
(* The file pipeline py_refactorData_mk1 -> py_EDA_phase3_Outlier_Removal  *)
(* -> {py_EDA_phase3_Normality_Check, py_EDA_phase4_finalData_Tx} in one   *)
(* working directory.  A run of a script is one action: the load with its  *)
(* checks, then the steps of main in order until one raises, each step     *)
(* that completes writing its file.  Meteorite_Landings.csv is the only    *)
(* file that comes from outside; it can be replaced between runs.          *)
(***************************************************************************)
LandingsCsv == "Meteorite_Landings.csv"

ImputatingCsv == "imputating_filter1_Tx.csv"

OutlierCsv == "outlier_filter_2.csv"

FinalCsv == "final_data_Tx.csv"

PipelineScripts == {"refactorData", "Outlier_Removal", "Normality_Check", "finalData_Tx"}

\* INPUT_CSV of each script
InputOf(s) ==
    CASE s = "refactorData" -> LandingsCsv
      [] s = "Outlier_Removal" -> ImputatingCsv
      [] s = "Normality_Check" -> OutlierCsv
      [] s = "finalData_Tx" -> OutlierCsv

\* the OUTPUT_ paths of each script
OutputsOf(s) ==
    IF s = "refactorData" THEN {ImputatingCsv}
    ELSE {Program(s)[i].file : i \in DOMAIN Program(s)} \ {NoFile}

PipelineFiles == {LandingsCsv} \cup UNION {OutputsOf(s) : s \in PipelineScripts}

NoSuchFile == [exists |-> FALSE, rows |-> <<>>]

FileWith(rows) == [exists |-> TRUE, rows |-> rows]

\* the rows of the years 2013, 1800, 2012, 1801, per_year[k] of them for the
\* k-th year, all Fell
DatasetOf(per_year) ==
    LET year(k) == <<<<"2", "0", "1", "3">>, <<"1", "8", "0", "0">>,
                     <<"2", "0", "1", "2">>, <<"1", "8", "0", "1">>>>[k]
        of(k) == [i \in 1..per_year[k] |->
                     [year |-> year(k), fall |-> "Fell", other |-> i]]
    IN  of(1) \o of(2) \o of(3) \o of(4)

\* the datasets: no row; one year; four years with equal counts; four years
\* one of which the IQR step removes; four years with different counts
Datasets ==
    {DatasetOf(c) : c \in {<<0, 0, 0, 0>>, <<1, 0, 0, 0>>, <<1, 1, 1, 1>>,
                            <<2, 1, 1, 1>>, <<3, 2, 2, 1>>}}

WrittenPathInPlace(s, path) ==
    IF s = "Outlier_Removal" /\ path = OutlierCsv THEN ImputatingCsv ELSE path

\* the path a script writes when it writes its output named path
WrittenPath(s, path) == path

\* the CSV refactorData writes: grouped, with its two columns
TableRows(grouped) ==
    [k \in DOMAIN grouped |->
        [year |-> YearNum(grouped[k].year), count |-> Num(grouped[k].count)]]

\* a file of the pipeline as load_data / main / load_and_transform read it
AsInputFile(f) ==
    [exists |-> f.exists, has_year |-> TRUE, has_count |-> TRUE,
     cells |-> [i \in DOMAIN f.rows |-> f.rows[i].count]]

\* the steps of main from step i on: how the run ends and which of its
\* files it has written by then
RECURSIVE RunSteps(_, _, _, _)
RunSteps(s, data, i, files) ==
    IF i > Len(Program(s))
    THEN {[outcome |-> "exit0", written |-> files]}
    ELSE UNION {IF e # NoError
                THEN {[outcome |-> e, written |-> files]}
                ELSE RunSteps(s, data, i + 1,
                              files \cup ({Program(s)[i].file} \ {NoFile})) :
                   e \in StepErrors(Program(s)[i].name, data)}

\* what a script writes into the file path, having read f
ContentOf(s, path, f) ==
    IF path = OutlierCsv
    THEN FileWith(Compress(f.rows, RemovalMain(Coerce(AsInputFile(f).cells)).mask_keep))
    ELSE IF path = FinalCsv
    THEN FileWith((CHOOSE r \in load_and_transform(
                       [exists |-> TRUE, has_columns |-> TRUE, rows |-> f.rows]) :
                           TRUE).df)
    ELSE FileWith(<<>>)

\* the ways a run of s can end on the files d: outcome and files written
RunOf(s, d) ==
    LET f == d[InputOf(s)]
    IN  IF s = "refactorData"
        THEN IF ~f.exists
             THEN {[outcome |-> "FileNotFoundError", files |-> {}]}
             ELSE LET r == RefactorMain(f.rows)
                  IN  IF r.error # NoError
                      THEN {[outcome |-> r.error, files |-> {}]}
                      ELSE {[outcome |-> "exit0",
                             files |-> {<<WrittenPath(s, ImputatingCsv),
                                          FileWith(TableRows(r.grouped))>>}]}
        ELSE LET ld == Load(s, AsInputFile(f))
             IN  IF ld.error # NoError
                 THEN {[outcome |-> ld.error, files |-> {}]}
                 ELSE {[outcome |-> r.outcome,
                        files |-> {<<WrittenPath(s, p), ContentOf(s, p, f)>> :
                                      p \in r.written}] :
                          r \in RunSteps(s, ld.values, 1, {})}

InitPipeline ==
    /\ FilterIdle
    /\ NormIdle
    /\ ModeIdle
    /\ ScriptIdle
    /\ PureIdle
    /\ JitterIdle
    /\ YearIdle
    /\ RefactorIdle
    /\ YearlyIdle
    /\ TxIdle
    /\ SkewIdle
    /\ \E first \in {NoSuchFile} \cup {FileWith(d) : d \in Datasets} :
          fs = [p \in PipelineFiles |-> IF p = LandingsCsv THEN first ELSE NoSuchFile]
    /\ last = [script |-> "none", outcome |-> "none"]
    /\ or_input = <<>>
    /\ updates = 0

PipeFrame == <<OldVars, jitterVars, yearVars, refactorVars, yearlyVars, txVars,
               skewVars>>

\* a run of s: the files, the record of the run
Run(s) ==
    \E r \in RunOf(s, fs) :
        /\ fs' = [p \in PipelineFiles |->
                     IF \E w \in r.files : w[1] = p
                     THEN (CHOOSE w \in r.files : w[1] = p)[2]
                     ELSE fs[p]]
        /\ last' = [script |-> s, outcome |-> r.outcome]
        /\ or_input' = IF s = "Outlier_Removal" /\ r.files # {}
                       THEN fs[InputOf(s)].rows
                       ELSE or_input

RunRefactorData ==
    /\ Run("refactorData")
    /\ UNCHANGED <<updates, PipeFrame>>

RunOutlierRemovalScript ==
    /\ Run("Outlier_Removal")
    /\ UNCHANGED <<updates, PipeFrame>>

RunNormalityCheck ==
    /\ Run("Normality_Check")
    /\ UNCHANGED <<updates, PipeFrame>>

RunFinalDataTx ==
    /\ Run("finalData_Tx")
    /\ UNCHANGED <<updates, PipeFrame>>

\* somebody puts another Meteorite_Landings.csv into the Data_ directory
ReplaceLandings ==
    /\ updates < MaxUpdates
    /\ \E d \in Datasets :
          /\ fs[LandingsCsv] # FileWith(d)
          /\ fs' = [fs EXCEPT ![LandingsCsv] = FileWith(d)]
    /\ updates' = updates + 1
    /\ last' = [script |-> "user", outcome |-> "replaced"]
    /\ UNCHANGED <<or_input, PipeFrame>>

NextPipeline ==
    \/ RunRefactorData
    \/ RunOutlierRemovalScript
    \/ RunNormalityCheck
    \/ RunFinalDataTx
    \/ ReplaceLandings

SpecPipeline == InitPipeline /\ [][NextPipeline]_vars

\* every row of outlier_filter_2.csv is a row of imputating_filter1_Tx.csv
\* as Outlier_Removal read it
FilteredRowsCameFromInput ==
    fs[OutlierCsv].exists =>
        \A i \in DOMAIN fs[OutlierCsv].rows :
            \E j \in DOMAIN or_input : or_input[j] = fs[OutlierCsv].rows[i]

\* a step in which a script ran: its input file is as before, it changed
\* none but its own output files, the two intermediate files are changed by
\* their one producer only, and without its input file it ends with
\* FileNotFoundError and leaves every file as it was
RunKeepsFrame ==
    last'.script \in PipelineScripts =>
        /\ fs'[InputOf(last'.script)] = fs[InputOf(last'.script)]
        /\ \A p \in PipelineFiles :
              fs'[p] # fs[p] =>
                  /\ p \in OutputsOf(last'.script)
                  /\ p = ImputatingCsv => last'.script = "refactorData"
                  /\ p = OutlierCsv => last'.script = "Outlier_Removal"
        /\ ~fs[InputOf(last'.script)].exists =>
              /\ last'.outcome = "FileNotFoundError"
              /\ fs' = fs

\* C28: in the pipeline refactorData -> Outlier_Removal -> {Normality_Check,
\* finalData_Tx} no script writes its own input file, each intermediate
\* file is written by one script only, a script run while its input file
\* has not been produced ends with FileNotFoundError and creates no file,
\* and after any order of runs every row of outlier_filter_2.csv is a row
\* of imputating_filter1_Tx.csv as it was when Outlier_Removal ran.
C28_PipelineFrames == []FilteredRowsCameFromInput /\ [][RunKeepsFrame]_vars

C28_Witness ==
    /\ fs[OutlierCsv].exists
    /\ Len(fs[OutlierCsv].rows) < Len(or_input)
    /\ fs[ImputatingCsv].rows # or_input
    /\ fs[FinalCsv].exists
    /\ last = [script |-> "finalData_Tx", outcome |-> "exit0"]

C28_WitnessNotFound ==
    /\ fs[ImputatingCsv].exists
    /\ ~fs[OutlierCsv].exists
    /\ last = [script |-> "finalData_Tx", outcome |-> "FileNotFoundError"]

(***************************************************************************)
(* The Z-transform at the end of the Normality Check main.                 *)
(***************************************************************************)
IsQuotient(z) == "z_of" \in DOMAIN z

\* C29: in the Normality Check main the Z-transform never divides by zero:
\* when the sample standard deviation of the transformed values is 0 the Z
\* values are an unchanged copy of the transformed values, otherwise each Z
\* value is (x - mean) / std of the transformed values; in both cases the Z
\* sequence has the length and the order of the transformed sequence.
C29_ZTransformGuarded ==
    pc = "reported" =>
        /\ Len(z_values) = Len(transformed_values)
        /\ \A i \in DOMAIN z_values :
              IsQuotient(z_values[i]) => sigma # "zero"
        /\ sigma = "zero" => z_values = transformed_values
        /\ sigma # "zero" =>
              \A i \in DOMAIN z_values :
                  /\ IsQuotient(z_values[i])
                  /\ z_values[i].z_of = transformed_values[i]
                  /\ z_values[i].mean_std_of = transformed_values

\* the quotient branch taken on a transformed array that is not a palindrome
C29_Witness ==
    /\ pc = "reported"
    /\ best_name # "identity"
    /\ sigma = "positive"
    /\ Len(z_values) >= 2
    /\ \A i \in DOMAIN z_values : IsQuotient(z_values[i])
    /\ transformed_values[1] # transformed_values[Len(transformed_values)]

\* at this point of main the transformed values always have spread: data
\* without spread stop main in estimate_mode_count, and a candidate whose
\* transformed array has none scores NaN and is never selected
C29_SpreadInMain == pc = "reported" => sigma = "positive"

(***************************************************************************)
(* py_EDA_phase3_Normality_Check.py: interpret_skew.  A skewness is a      *)
(* float: a number in hundredths, plus or minus infinity, or NaN.  Every   *)
(* comparison with NaN is False.                                           *)
(***************************************************************************)
SkewScale == 100

NegInf == [kind |-> "ninf", v |-> 0]

SkewInputs ==
    {Fin(n) : n \in (0 - MaxSkew)..MaxSkew} \cup {Inf, NegInf, NaN}

\* a < b and a <= b on floats
Less(a, b) ==
    /\ a.kind # "nan" /\ b.kind # "nan"
    /\ \/ a.kind = "ninf" /\ b.kind # "ninf"
       \/ a.kind = "fin" /\ b.kind = "fin" /\ a.v < b.v
       \/ a.kind = "fin" /\ b.kind = "inf"

LessEq(a, b) == Less(a, b) \/ (a.kind # "nan" /\ a = b)

\* abs(skew)
Abs(a) ==
    IF a.kind = "fin" THEN Fin(IF a.v < 0 THEN 0 - a.v ELSE a.v)
    ELSE IF a.kind = "nan" THEN NaN ELSE Inf

Half == Fin(SkewScale \div 2)
One == Fin(SkewScale)
MinusHalf == Fin(0 - (SkewScale \div 2))
MinusOne == Fin(0 - SkewScale)

Symmetric == "approximately symmetric"
ModeratelyRight == "moderately right-skewed"
StronglyRight == "strongly right-skewed (heavy right tail)"
ModeratelyLeft == "moderately left-skewed"
StronglyLeft == "strongly left-skewed (heavy left tail)"

interpret_skew(s) ==
    IF Less(Abs(s), Half) THEN Symmetric
    ELSE IF LessEq(Half, s) /\ Less(s, One) THEN ModeratelyRight
    ELSE IF LessEq(One, s) THEN StronglyRight
    ELSE IF Less(MinusOne, s) /\ LessEq(s, MinusHalf) THEN ModeratelyLeft
    ELSE StronglyLeft

InitSkew ==
    /\ FilterIdle /\ NormIdle /\ ModeIdle /\ ScriptIdle /\ PureIdle
    /\ JitterIdle /\ YearIdle /\ RefactorIdle /\ YearlyIdle /\ TxIdle /\ PipeIdle
    /\ skew \in SkewInputs
    /\ label = "none"

CallInterpretSkew ==
    /\ label = "none"
    /\ label' = interpret_skew(skew)
    /\ UNCHANGED <<skew, OldVars, jitterVars, yearVars, refactorVars, yearlyVars,
                   txVars, pipeVars>>

NextSkew == CallInterpretSkew

SpecSkew == InitSkew /\ [][NextSkew]_vars

(***************************************************************************)
(* Properties of interpret_skew.                                           *)
(***************************************************************************)
SkewLabels == {Symmetric, ModeratelyRight, StronglyRight, ModeratelyLeft, StronglyLeft}

\* the label the thresholds 0.5 and 1.0 give to the skewness s
LabelByThresholds(s, l) ==
    /\ l = Symmetric <=> Less(Abs(s), Half)
    /\ l = ModeratelyRight <=> (LessEq(Half, s) /\ Less(s, One))
    /\ l = StronglyRight <=> LessEq(One, s)
    /\ l = ModeratelyLeft <=> (Less(MinusOne, s) /\ LessEq(s, MinusHalf))
    /\ l = StronglyLeft <=> LessEq(s, MinusOne)

\* -s
Negated(s) ==
    IF s.kind = "fin" THEN Fin(0 - s.v)
    ELSE IF s.kind = "inf" THEN NegInf
    ELSE IF s.kind = "ninf" THEN Inf ELSE NaN

\* left and right exchanged
Mirror(l) ==
    CASE l = ModeratelyRight -> ModeratelyLeft
      [] l = ModeratelyLeft -> ModeratelyRight
      [] l = StronglyRight -> StronglyLeft
      [] l = StronglyLeft -> StronglyRight
      [] OTHER -> l

SkewStatement ==
    /\ label \in SkewLabels
    /\ LabelByThresholds(skew, label)
    /\ interpret_skew(Negated(skew)) = Mirror(label)
    /\ label = StronglyLeft => LessEq(skew, MinusOne)

\* C30: interpret_skew assigns every skew value exactly one of its five
\* labels with thresholds at 0.5 and 1.0 in absolute value (|s| < 0.5
\* symmetric; 0.5 <= s < 1 moderately right; s >= 1 strongly right;
\* -1 < s <= -0.5 moderately left; s <= -1 strongly left), the label of -s
\* is the left/right mirror of the label of s, and the strongly left-skewed
\* label is produced only for a skew value <= -1.
C30_AsStated == label # "none" => SkewStatement

\* the same statement for every skewness that is a number or an infinity
C30_OnNumbers == (label # "none" /\ skew.kind # "nan") => SkewStatement

\* a NaN skewness falls through every comparison to the last label
C30_NaNStronglyLeft == (label # "none" /\ skew.kind = "nan") => label = StronglyLeft

C30_WitnessBoundary ==
    /\ skew = MinusHalf
    /\ label = ModeratelyLeft

====
